---- MODULE Spec2Model ----
(***************************************************************************)
(* Candy Survival: the world simulation of game/states/playing.py with the *)
(* containers of core/resources.py and core/inventory.py, the machines of  *)
(* game/entities.py and the event manager of game/events.py.               *)
(*                                                                         *)
(* Times are in milliseconds (pygame ticks), the clock in minutes of day,  *)
(* lengths in pixels.  Floats are modelled by exact integers: the settings *)
(* below are chosen so that every product the code computes is integral.   *)
(***************************************************************************)
EXTENDS Integers, Sequences, FiniteSets, TLC

VARIABLES
    now,      \* pygame.time.get_ticks(): the wall clock, in ms
    game,     \* the fields of PlayingState (and of the objects it owns)
    scene,    \* Game.current_state: "playing" or "menu"
    trace     \* observation of the last step: what was called, on what, with what result

vars == <<now, game, scene, trace>>

Max(a, b) == IF a >= b THEN a ELSE b
Min(a, b) == IF a <= b THEN a ELSE b
SetMin(S) == CHOOSE x \in S : \A y \in S : x <= y
SetMax(S) == CHOOSE x \in S : \A y \in S : x >= y

RECURSIVE SumOver(_, _)
SumOver(f, S) == IF S = {} THEN 0
                 ELSE LET x == CHOOSE y \in S : TRUE IN f[x] + SumOver(f, S \ {x})

SeqRemoveAt(seq, i) == SubSeq(seq, 1, i - 1) \o SubSeq(seq, i + 1, Len(seq))

(***************************************************************************)
(* Bounds of the exploration.                                              *)
(***************************************************************************)
MaxCandy == 3          \* SpecStock, SpecMachine: no more than this many of a kind is gathered
MaxHeld == 3           \* SpecMachine: no more than this many candies are held at once
MaxCarried == 6        \* Spec: the player walks onto an item while fewer than this are held
MaxNowMs == 5000       \* Spec: frames are run until this many milliseconds have passed
MaxPicked == 2         \* SpecSpawn: items are picked up while fewer than this are held
MaxDays == 6           \* SpecHolder: days are begun until this day is reached
MaxGhostMs == 1200      \* SpecGhost: frames are run until this many milliseconds have passed
MaxActionCandy == 4    \* SpecActions: givers give while the stockpile holds fewer candies
MaxRespawnMs == 600    \* SpecRespawn: frames are run until this many milliseconds have passed
MaxHunterMs == 1000    \* SpecHunter: frames are run until this many milliseconds have passed
MaxGiverMs == 1500     \* SpecGiver: the givers are visited until this many milliseconds have passed
MaxGiverDays == 2      \* SpecGiver: no more than this many days are started

(***************************************************************************)
(* core/resources.py: CandyStockpile                                       *)
(***************************************************************************)
CANDY_TYPES == <<"candy_red", "candy_blue", "candy_green", "candy_yellow", "candy_purple">>
CandyKinds == {CANDY_TYPES[i] : i \in DOMAIN CANDY_TYPES}

RECIPES ==
    [ ClothesPin |-> [candy_red |-> 2, candy_blue |-> 1, candy_yellow |-> 2],
      PaperShip  |-> [candy_blue |-> 2, candy_green |-> 2, candy_purple |-> 1],
      Dollhouse  |-> [candy_green |-> 2, candy_yellow |-> 2, candy_red |-> 1],
      Umbrella   |-> [candy_purple |-> 2, candy_red |-> 2, candy_blue |-> 1] ]

RecipeResult ==
    [ ClothesPin |-> "Clothes Pin", PaperShip |-> "Paper Ship",
      Dollhouse |-> "Dollhouse", Umbrella |-> "Umbrella" ]

EmptyStockpile == [k \in CandyKinds |-> 0]

Amount(sp, k) == IF k \in DOMAIN sp THEN sp[k] ELSE 0

StockAdd(sp, k, n) == [sp EXCEPT ![k] = @ + n]

StockAddBulk(sp, amounts) ==
    [k \in DOMAIN sp |-> IF k \in DOMAIN amounts THEN sp[k] + amounts[k] ELSE sp[k]]

CanAfford(sp, recipe) == \A k \in DOMAIN recipe : Amount(sp, k) >= recipe[k]

\* consume(candy_type, amount): [ok, stock]
StockConsume(sp, k, n) ==
    IF Amount(sp, k) < n
    THEN [ok |-> FALSE, stock |-> sp]
    ELSE [ok |-> TRUE, stock |-> [sp EXCEPT ![k] = @ - n]]

\* A consume_recipe that takes each kind it can and reports whether all were there.
ConsumeRecipePartial(sp, recipe) ==
    [ ok    |-> CanAfford(sp, recipe),
      stock |-> [k \in DOMAIN sp |->
                    IF k \in DOMAIN recipe /\ sp[k] >= recipe[k]
                    THEN sp[k] - recipe[k] ELSE sp[k]] ]

\* consume_recipe(recipe): [ok, stock]
ConsumeRecipe(sp, recipe) ==
    IF ~CanAfford(sp, recipe)
    THEN [ok |-> FALSE, stock |-> sp]
    ELSE [ok |-> TRUE,
          stock |-> [k \in DOMAIN sp |->
                        IF k \in DOMAIN recipe THEN sp[k] - recipe[k] ELSE sp[k]]]

(***************************************************************************)
(* core/inventory.py: Inventory.  A slot holds a stack or NoStack (None).   *)
(***************************************************************************)
INVENTORY_ROWS == 1
INVENTORY_COLS == 3
INVENTORY_MAX_STACK == 2

NoStack == [item |-> "none", count |-> 0]

EmptyInventory == [i \in 1..(INVENTORY_ROWS * INVENTORY_COLS) |-> NoStack]


\* _find_slot: the first stack of the item with room, else the first empty slot, else 0 (None)
FindSlot(slots, item) ==
    LET partial == {i \in DOMAIN slots : slots[i] # NoStack /\ slots[i].item = item
                                         /\ slots[i].count < INVENTORY_MAX_STACK}
        empty == {i \in DOMAIN slots : slots[i] = NoStack}
    IN  IF partial # {} THEN SetMin(partial)
        ELSE IF empty # {} THEN SetMin(empty) ELSE 0

RECURSIVE InvAdd(_, _, _)
\* add(item, count): [slots, leftover]
InvAdd(slots, item, remaining) ==
    IF remaining <= 0 THEN [slots |-> slots, leftover |-> remaining]
    ELSE LET index == FindSlot(slots, item)
         IN  IF index = 0 THEN [slots |-> slots, leftover |-> remaining]
             ELSE IF slots[index] = NoStack
             THEN LET take == Min(INVENTORY_MAX_STACK, remaining)
                  IN  InvAdd([slots EXCEPT ![index] = [item |-> item, count |-> take]],
                             item, remaining - take)
             ELSE LET can_take == Min(INVENTORY_MAX_STACK - slots[index].count, remaining)
                  IN  InvAdd([slots EXCEPT ![index].count = @ + can_take],
                             item, remaining - can_take)

RECURSIVE InvRemove(_, _, _)
\* remove(item, count): [slots, ok].  Stacks are emptied smallest first; when the
\* item runs out before `count` is reached the call returns False with what it
\* took already gone.
InvRemove(slots, item, left) ==
    IF left <= 0 THEN [slots |-> slots, ok |-> TRUE]
    ELSE LET candidates == {i \in DOMAIN slots : slots[i] # NoStack /\ slots[i].item = item
                                                 /\ slots[i].count > 0}
         IN  IF candidates = {} THEN [slots |-> slots, ok |-> FALSE]
             ELSE LET index == CHOOSE i \in candidates : \A j \in candidates :
                                  \/ slots[i].count < slots[j].count
                                  \/ slots[i].count = slots[j].count /\ i <= j
                      take == Min(slots[index].count, left)
                  IN  InvRemove([slots EXCEPT ![index] =
                                    IF @.count - take = 0 THEN NoStack
                                    ELSE [@ EXCEPT !.count = @ - take]],
                                item, left - take)

\* clear_slot(index): the slots afterwards
InvClearSlot(slots, index) ==
    IF index \in DOMAIN slots THEN [slots EXCEPT ![index] = NoStack] ELSE slots

\* count(item)
InvCount(slots, item) ==
    SumOver([i \in DOMAIN slots |-> IF slots[i] # NoStack /\ slots[i].item = item
                                    THEN slots[i].count ELSE 0], DOMAIN slots)

\* has(item, count)
InvHas(slots, item, count) == InvCount(slots, item) >= count

RECURSIVE CanAddFrom(_, _, _, _)
CanAddFrom(slots, item, remaining, i) ==
    IF i > Len(slots) THEN remaining <= 0
    ELSE LET r == IF slots[i] # NoStack /\ slots[i].item = item
                     /\ slots[i].count < INVENTORY_MAX_STACK
                  THEN remaining - Min(INVENTORY_MAX_STACK - slots[i].count, remaining)
                  ELSE IF slots[i] = NoStack
                  THEN remaining - Min(INVENTORY_MAX_STACK, remaining)
                  ELSE remaining
         IN  IF r <= 0 THEN TRUE ELSE CanAddFrom(slots, item, r, i + 1)

\* can_add(item, count)
InvCanAdd(slots, item, count) == CanAddFrom(slots, item, count, 1)

(***************************************************************************)
(* game/events.py: event definitions and EventManager._resolve_event        *)
(***************************************************************************)
DEFAULT_COUNTER_ITEMS == <<"Clothes Pin", "Paper Ship", "Dollhouse", "Umbrella">>

EVENT_SELF_DEP_COUNTER_COST == 2

\* _default_event_definitions(any_counter_cost)
EVENT_DEFINITIONS ==
    << [name |-> "stink", counter_item |-> "Clothes Pin", counter_amount |-> 1],
       [name |-> "crying", counter_item |-> "Paper Ship", counter_amount |-> 1],
       [name |-> "landslide", counter_item |-> "Dollhouse", counter_amount |-> 1],
       [name |-> "embrassing", counter_item |-> "Umbrella", counter_amount |-> 1],
       [name |-> "self_deprecation", counter_item |-> "any",
        counter_amount |-> EVENT_SELF_DEP_COUNTER_COST] >>

NoEvent == [name |-> "none", counter_item |-> "none", counter_amount |-> 0]

\* EventDefinition.requires_any_counter
RequiresAnyCounter(event) == event.counter_item = "any"

\* derive_counter_items([], definitions): the defaults, then every specific
\* counter item of a definition that is not among them (none here)
COUNTER_ITEMS == DEFAULT_COUNTER_ITEMS

RECURSIVE TakeCounters(_, _, _)
\* the loop of _resolve_event over self.counter_items, from index i on
TakeCounters(slots, remaining, i) ==
    IF i > Len(COUNTER_ITEMS) \/ remaining <= 0 THEN slots
    ELSE LET available == InvCount(slots, COUNTER_ITEMS[i])
         IN  IF available <= 0 THEN TakeCounters(slots, remaining, i + 1)
             ELSE LET take == Min(available, remaining)
                      r == InvRemove(slots, COUNTER_ITEMS[i], take)
                  IN  TakeCounters(r.slots, IF r.ok THEN remaining - take ELSE remaining, i + 1)

RECURSIVE TakeCountersWhole(_, _, _)
TakeCountersWhole(slots, remaining, i) ==
    IF i > Len(COUNTER_ITEMS) \/ remaining <= 0 THEN slots
    ELSE LET available == InvCount(slots, COUNTER_ITEMS[i])
         IN  IF available <= 0 THEN TakeCountersWhole(slots, remaining, i + 1)
             ELSE TakeCountersWhole(InvRemove(slots, COUNTER_ITEMS[i], available).slots,
                                    remaining - available, i + 1)

\* A wildcard resolution that empties every counter kind it visits.
ResolveEventTakeAll(slots, event) ==
    IF RequiresAnyCounter(event)
    THEN LET needed == Max(1, event.counter_amount)
             total == SumOver([i \in DOMAIN COUNTER_ITEMS |-> InvCount(slots, COUNTER_ITEMS[i])],
                              DOMAIN COUNTER_ITEMS)
         IN  IF total < needed THEN [success |-> FALSE, slots |-> slots]
             ELSE [success |-> TRUE, slots |-> TakeCountersWhole(slots, needed, 1)]
    ELSE LET amount == Max(1, event.counter_amount)
         IN  IF ~InvHas(slots, event.counter_item, amount)
             THEN [success |-> FALSE, slots |-> slots]
             ELSE [success |-> TRUE, slots |-> InvRemove(slots, event.counter_item, amount).slots]

\* A specific resolution that removes what it finds before it knows there is enough.
ResolveEventEager(slots, event) ==
    IF RequiresAnyCounter(event)
    THEN LET needed == Max(1, event.counter_amount)
             total == SumOver([i \in DOMAIN COUNTER_ITEMS |-> InvCount(slots, COUNTER_ITEMS[i])],
                              DOMAIN COUNTER_ITEMS)
         IN  IF total < needed THEN [success |-> FALSE, slots |-> slots]
             ELSE [success |-> TRUE, slots |-> TakeCounters(slots, needed, 1)]
    ELSE LET amount == Max(1, event.counter_amount)
             r == InvRemove(slots, event.counter_item, amount)
         IN  [success |-> r.ok, slots |-> r.slots]

\* _resolve_event(player_inventory) with current_event = event: [success, slots]
ResolveEvent(slots, event) ==
    IF RequiresAnyCounter(event)
    THEN LET needed == Max(1, event.counter_amount)
             total == SumOver([i \in DOMAIN COUNTER_ITEMS |-> InvCount(slots, COUNTER_ITEMS[i])],
                              DOMAIN COUNTER_ITEMS)
         IN  IF total < needed THEN [success |-> FALSE, slots |-> slots]
             ELSE [success |-> TRUE, slots |-> TakeCounters(slots, needed, 1)]
    ELSE LET amount == Max(1, event.counter_amount)
         IN  IF ~InvHas(slots, event.counter_item, amount)
             THEN [success |-> FALSE, slots |-> slots]
             ELSE [success |-> TRUE, slots |-> InvRemove(slots, event.counter_item, amount).slots]

(***************************************************************************)
(* game/entities.py: Machine, and core/resources.py: WorldProgression       *)
(***************************************************************************)
\* settings machine_level_data = {2: {cost 1, bonus_chance 0.25}, 3: {cost 2, bonus_chance 0.5}}
UPGRADE_COSTS == (2 :> 1) @@ (3 :> 2)
BONUS_CHANCE_PCT == (2 :> 25) @@ (3 :> 50)
MACHINE_VICTORY_LEVEL == 3
\* machine_max_level = max([1, *machine_level_data.keys(), machine_victory_level])
MACHINE_MAX_LEVEL == SetMax({1, MACHINE_VICTORY_LEVEL} \cup DOMAIN UPGRADE_COSTS)
WORLD_EXP_PER_UPGRADE == 1

NoCost == -1   \* None

\* machine_layout, each machine as Machine.__init__ leaves it
MACHINE_LAYOUT ==
    << [candy_type |-> "red", item_key |-> "candy_red", neutral |-> FALSE],
       [candy_type |-> "blue", item_key |-> "candy_blue", neutral |-> FALSE],
       [candy_type |-> "green", item_key |-> "candy_green", neutral |-> FALSE],
       [candy_type |-> "yellow", item_key |-> "candy_yellow", neutral |-> FALSE],
       [candy_type |-> "neutral", item_key |-> "candy_purple", neutral |-> TRUE] >>

NewMachine(layout) ==
    [ candy_type |-> layout.candy_type, item_key |-> layout.item_key, neutral |-> layout.neutral,
      level |-> 1, upgraded_today |-> FALSE ]

NEUTRAL == CHOOSE i \in DOMAIN MACHINE_LAYOUT : MACHINE_LAYOUT[i].neutral

\* machine_by_candy[candy_type]: the index of the machine, 0 when there is none
MachineByCandy(k) ==
    IF \E i \in DOMAIN MACHINE_LAYOUT : MACHINE_LAYOUT[i].item_key = k
    THEN CHOOSE i \in DOMAIN MACHINE_LAYOUT : MACHINE_LAYOUT[i].item_key = k
    ELSE 0

\* next_upgrade_cost()
NextUpgradeCost(machine) ==
    LET next_level == machine.level + 1
    IN  IF next_level > MACHINE_MAX_LEVEL THEN NoCost
        ELSE IF next_level \in DOMAIN UPGRADE_COSTS THEN UPGRADE_COSTS[next_level] ELSE NoCost

\* increase_level(levels): [machine, delta]
IncreaseLevel(machine, levels) ==
    IF levels <= 0 THEN [machine |-> machine, delta |-> 0]
    ELSE LET target == Min(MACHINE_MAX_LEVEL, machine.level + levels)
             delta == target - machine.level
         IN  [ machine |-> IF delta > 0
                           THEN [machine EXCEPT !.level = target, !.upgraded_today = TRUE]
                           ELSE machine,
               delta |-> delta ]

\* decrease_level(levels): [machine, delta]
DecreaseLevel(machine, levels) ==
    IF levels <= 0 THEN [machine |-> machine, delta |-> 0]
    ELSE LET target == Max(1, machine.level - levels)
             delta == machine.level - target
         IN  [ machine |-> IF delta > 0 THEN [machine EXCEPT !.level = target] ELSE machine,
               delta |-> delta ]

\* bonus_chance(), in percent
BonusChance(machine) ==
    IF machine.level \in DOMAIN BONUS_CHANCE_PCT THEN BONUS_CHANCE_PCT[machine.level] ELSE 0

\* reset_daily_state()
ResetDailyState(machine) == [machine EXCEPT !.upgraded_today = FALSE]

\* WorldProgression.record_upgrade()
RecordUpgrade(wp) ==
    [wp EXCEPT !.upgrades_today = @ + 1, !.world_exp = @ + WORLD_EXP_PER_UPGRADE]

\* WorldProgression.end_of_day(): [no_upgrades, wp]
EndOfDay(wp) ==
    [no_upgrades |-> wp.upgrades_today = 0, wp |-> [wp EXCEPT !.upgrades_today = 0]]

\* A try_upgrade that looks the cost up under the level the machine has, not the one it gets.
TryUpgradeCurrentCost(machine, stock, wp) ==
    LET cost == IF machine.level + 1 > MACHINE_MAX_LEVEL THEN NoCost
                ELSE IF machine.level \in DOMAIN UPGRADE_COSTS THEN UPGRADE_COSTS[machine.level]
                ELSE 0
    IN  IF cost = NoCost
        THEN [ok |-> FALSE, machine |-> machine, stock |-> stock, wp |-> wp, msg |-> "max_level"]
        ELSE LET c == StockConsume(stock, machine.item_key, cost)
             IN  IF ~c.ok
                 THEN [ok |-> FALSE, machine |-> machine, stock |-> stock, wp |-> wp,
                       msg |-> "missing"]
                 ELSE [ok |-> TRUE, machine |-> IncreaseLevel(machine, 1).machine,
                       stock |-> c.stock, wp |-> RecordUpgrade(wp), msg |-> "upgraded"]

\* try_upgrade(stockpile, msglog, audio, world_progress): [ok, machine, stock, wp, msg]
TryUpgrade(machine, stock, wp) ==
    LET cost == NextUpgradeCost(machine)
    IN  IF cost = NoCost
        THEN [ok |-> FALSE, machine |-> machine, stock |-> stock, wp |-> wp, msg |-> "max_level"]
        ELSE IF machine.item_key = ""
        THEN [ok |-> FALSE, machine |-> machine, stock |-> stock, wp |-> wp, msg |-> "not_manual"]
        ELSE LET c == StockConsume(stock, machine.item_key, cost)
             IN  IF ~c.ok
                 THEN [ok |-> FALSE, machine |-> machine, stock |-> stock, wp |-> wp,
                       msg |-> "missing"]
                 ELSE LET up == IncreaseLevel(machine, 1)
                      IN  IF up.delta <= 0
                          THEN [ok |-> FALSE, machine |-> up.machine, stock |-> c.stock,
                                wp |-> wp, msg |-> "max_level"]
                          ELSE [ok |-> TRUE, machine |-> up.machine, stock |-> c.stock,
                                wp |-> RecordUpgrade(wp), msg |-> "upgraded"]

(***************************************************************************)
(* playing.py: the resource spawner.  A position of a pool is a number; an  *)
(* item is [item, pos, yield_count].  Whether a position is blocked (by a   *)
(* wall, a structure, a giver, an NPC or another item's sprite) is geometry *)
(* the spawner is given: `blocked` is the set of positions blocked at the   *)
(* time of the call.  random.randrange is a choice among all indices, so a  *)
(* spawn yields a set of outcomes.                                          *)
(***************************************************************************)
CANDY_MAX_PER_TYPE == 2
INITIAL_CANDY_SPAWN_PER_TYPE == 1
BATTERY_MAX_COUNT == 2
INITIAL_BATTERY_ITEM_COUNT == 1

\* _candy_yield_for_type(candy_type)
CandyYield(g, kind) ==
    IF MachineByCandy(kind) # 0 THEN Max(1, g.machines[MachineByCandy(kind)].level) ELSE 1

\* _release_candy_position / _release_battery_position: list.append.  An available
\* list is only indexed at random, appended to, rebuilt from the pool and measured,
\* so its order is never observed; it is kept in increasing order here, one
\* representative per multiset of positions.
Release(avail, pos) ==
    LET before == SelectSeq(avail, LAMBDA p : p <= pos)
        after == SelectSeq(avail, LAMBDA p : p > pos)
    IN  before \o <<pos>> \o after

RECURSIVE SpawnCandyTries(_, _, _, _)
\* the loop of _spawn_candy: _reserve_candy_position pops a random index, a blocked
\* position is appended back by _release_candy_position
SpawnCandyTries(g, kind, blocked, attempts) ==
    LET avail == g.available_candy_positions
    IN  IF attempts = 0 \/ avail = <<>> THEN {[ok |-> FALSE, g |-> g]}
        ELSE UNION {
            LET pos == avail[i]
                rest == SeqRemoveAt(avail, i)
            IN  IF pos \in blocked
                THEN SpawnCandyTries([g EXCEPT !.available_candy_positions = Release(rest, pos)],
                                     kind, blocked, attempts - 1)
                ELSE {[ok |-> TRUE,
                       g |-> [g EXCEPT
                           !.available_candy_positions = rest,
                           !.items = g.items \cup {[item |-> kind, pos |-> pos,
                                              yield_count |-> CandyYield(g, kind)]},
                           !.candy_active_counts = [k \in CandyKinds |->
                               g.candy_active_counts[k] + (IF k = kind THEN 1 ELSE 0)]]]}
            : i \in DOMAIN avail }

\* A _spawn_candy without the cap test.
SpawnCandyNoCap(g, kind, blocked) ==
    SpawnCandyTries(g, kind, blocked, Max(1, Len(g.available_candy_positions)))

\* _spawn_candy(candy_type): the set of possible [ok, g]
SpawnCandy(g, kind, blocked) ==
    IF g.candy_active_counts[kind] >= CANDY_MAX_PER_TYPE THEN {[ok |-> FALSE, g |-> g]}
    ELSE SpawnCandyTries(g, kind, blocked, Max(1, Len(g.available_candy_positions)))

RECURSIVE SpawnBatteryTries(_, _, _)
SpawnBatteryTries(g, blocked, attempts) ==
    LET avail == g.available_battery_positions
    IN  IF attempts = 0 \/ avail = <<>> THEN {[ok |-> FALSE, g |-> g]}
        ELSE UNION {
            LET pos == avail[i]
                rest == SeqRemoveAt(avail, i)
            IN  IF pos \in blocked
                THEN SpawnBatteryTries([g EXCEPT !.available_battery_positions = Release(rest, pos)],
                                       blocked, attempts - 1)
                ELSE {[ok |-> TRUE,
                       g |-> [g EXCEPT
                           !.available_battery_positions = rest,
                           !.items = g.items \cup {[item |-> "battery", pos |-> pos, yield_count |-> 1]},
                           !.battery_active_count = g.battery_active_count + 1]]}
            : i \in DOMAIN avail }

\* _spawn_battery(): the set of possible [ok, g]
SpawnBattery(g, blocked) ==
    IF g.battery_active_count >= BATTERY_MAX_COUNT THEN {[ok |-> FALSE, g |-> g]}
    ELSE SpawnBatteryTries(g, blocked, Max(1, Len(g.available_battery_positions)))

RECURSIVE SpawnCandyUpTo(_, _, _, _)
\* for _ in range(n): if not self._spawn_candy(candy): break
SpawnCandyUpTo(g, kind, blocked, n) ==
    IF n <= 0 THEN {g}
    ELSE UNION { IF r.ok THEN SpawnCandyUpTo(r.g, kind, blocked, n - 1) ELSE {r.g}
                 : r \in SpawnCandy(g, kind, blocked) }

RECURSIVE SpawnBatteryUpTo(_, _, _)
SpawnBatteryUpTo(g, blocked, n) ==
    IF n <= 0 THEN {g}
    ELSE UNION { IF r.ok THEN SpawnBatteryUpTo(r.g, blocked, n - 1) ELSE {r.g}
                 : r \in SpawnBattery(g, blocked) }

RECURSIVE TopUpCandies(_, _, _)
\* for candy in CANDY_TYPES: needed = max(0, initial - active[candy]); spawn needed
TopUpCandies(g, blocked, i) ==
    IF i > Len(CANDY_TYPES) THEN {g}
    ELSE LET initial == Min(CANDY_MAX_PER_TYPE, INITIAL_CANDY_SPAWN_PER_TYPE)
             needed == Max(0, initial - g.candy_active_counts[CANDY_TYPES[i]])
         IN  UNION { TopUpCandies(g2, blocked, i + 1)
                     : g2 \in SpawnCandyUpTo(g, CANDY_TYPES[i], blocked, needed) }

\* the battery half of _refresh_day_resources, and _spawn_initial_batteries
TopUpBatteries(g, blocked) ==
    LET initial == Min(BATTERY_MAX_COUNT, INITIAL_BATTERY_ITEM_COUNT)
    IN  SpawnBatteryUpTo(g, blocked, Max(0, initial - g.battery_active_count))

\* A pool listing that forgets to leave out the positions in use.
PoolWithoutNothing(pool, taken) == pool

\* list(pool) with the positions of the given items removed
PoolWithout(pool, taken) == SelectSeq(pool, LAMBDA p : p \notin taken)

\* _refresh_day_resources(): the set of possible g
RefreshDayResources(g, blocked) ==
    LET candies == {it \in g.items : it.item \in CandyKinds}
        batteries == {it \in g.items : it.item = "battery"}
        counted == [g EXCEPT
            !.candy_respawn_schedule = <<>>,
            !.battery_respawn_schedule = <<>>,
            !.available_candy_positions = PoolWithout(g.candy_positions_pool,
                                                      {it.pos : it \in candies}),
            !.available_battery_positions = PoolWithout(g.battery_positions_pool,
                                                        {it.pos : it \in batteries}),
            !.candy_active_counts = [k \in CandyKinds |->
                                        Cardinality({it \in candies : it.item = k})],
            !.battery_active_count = Cardinality(batteries)]
    IN  UNION { TopUpBatteries(g2, blocked) : g2 \in TopUpCandies(counted, blocked, 1) }

\* _collect_candy(candy_type, amount): the possible (total, bonus) as the set of
\* bonus counts; every unit rolls random.random() < chance on its own
BonusCounts(g, kind, amount) ==
    LET chance == IF MachineByCandy(kind) = 0 THEN 0
                  ELSE BonusChance(g.machines[MachineByCandy(kind)])
        n == Max(0, amount)
    IN  IF chance <= 0 THEN {0}
        ELSE IF chance >= 100 THEN {n}
        ELSE 0..n

\* _handle_pickups() for one item the player's rect touches: the set of possible g
PickupItem(g, it) ==
    IF it.item \in CandyKinds
    THEN { [g EXCEPT
              !.candy_stockpile = StockAdd(g.candy_stockpile, it.item, Max(0, it.yield_count) + bonus),
              !.candy_active_counts = [k \in CandyKinds |->
                  IF k = it.item THEN Max(0, g.candy_active_counts[k] - 1)
                  ELSE g.candy_active_counts[k]],
              !.available_candy_positions = Release(g.available_candy_positions, it.pos),
              !.items = g.items \ {it}]
           : bonus \in BonusCounts(g, it.item, it.yield_count) }
    ELSE LET r == InvAdd(g.inventory, it.item, it.yield_count)
         IN  IF r.leftover = 0
             THEN IF it.item = "battery"
                  THEN {[g EXCEPT !.inventory = r.slots,
                                  !.battery_active_count = Max(0, g.battery_active_count - 1),
                                  !.available_battery_positions = Release(g.available_battery_positions, it.pos),
                                  !.items = g.items \ {it}]}
                  ELSE {[g EXCEPT !.inventory = r.slots, !.items = g.items \ {it}]}
             ELSE {[g EXCEPT !.inventory = r.slots]}

(***************************************************************************)
(* playing.py: machine levels, victory and the neutral holder.  `log` is a  *)
(* record of what a handler call did (which hooks ran, how often), kept     *)
(* beside the program's fields and cleared at the start of every call.      *)
(***************************************************************************)
NEUTRAL_HOLDER_THRESHOLD == 4
NEUTRAL_HOLDER_MIN == -4
NEUTRAL_HOLDER_MAX == 4
NEUTRAL_HOLDER_NO_UPGRADE_BONUS == 2
NEUTRAL_HOLDER_UPGRADE_PENALTY == 1
EVENT_SUCCESS_CANDY_REWARD == 2
EVENT_FAILURE_NEUTRAL_UPGRADE_LEVELS == 1

NoSnapshot == [taken |-> FALSE]

EmptyLog ==
    [ wraps |-> 0,          \* midnight wraps of the clock
      begin_days |-> 0,     \* calls of _begin_new_day
      holder_results |-> 0, \* calls of _apply_holder_day_result
      day_result |-> "none", \* "bonus" or "penalty": the branch its last call took
      day_starts |-> 0,     \* calls of _on_day_start
      night_starts |-> 0,   \* calls of _on_night_start
      refreshes |-> 0,      \* calls of _refresh_day_resources
      hunter_spawns |-> 0,  \* calls of _spawn_day_hunter
      hints |-> 0,          \* hint broadcasts
      long_hints |-> 0,     \* hint broadcasts made with the long window enabled
      resolved |-> "none",  \* "success" or "failure" when an event was resolved
      caught |-> "none",    \* "ghost" or "hunter" when one caught the player
      forced |-> NoSnapshot,\* the clock and day as _force_new_day found them
      ended |-> NoSnapshot, \* the border and the night's length as _on_day_start found them
      backlash |-> NoSnapshot, \* the neutral machine, progress and inventory around a failure's backlash
      pushed |-> NoSnapshot, \* the last ghost _keep_ghost_outside_safe_zone moved: where from, and the ghost after
      hunter_target |-> NoSnapshot \* the target _update_day_hunter handed to the hunter's update
    ]

Logged(g, field, value) == [g EXCEPT !.log = [g.log EXCEPT ![field] = value]]
Counted(g, field) == Logged(g, field, g.log[field] + 1)

\* _check_machine_victory()
CheckMachineVictory(g) ==
    IF g.victory_triggered THEN g
    ELSE IF \E i \in DOMAIN g.machines : g.machines[i].level >= MACHINE_VICTORY_LEVEL
    THEN [g EXCEPT !.victory_triggered = TRUE, !.menu_signals = g.menu_signals + 1]
    ELSE g

RECURSIVE RecordUpgrades(_, _)
\* for _ in range(changed): self.world_progress.record_upgrade()
\* A level change that never records progress.
ChangeMachineLevelNoRecord(g, i, delta, record_progress) ==
    IF delta = 0 THEN [g |-> g, changed |-> 0]
    ELSE IF delta > 0
    THEN LET up == IncreaseLevel(g.machines[i], delta)
             g1 == [g EXCEPT !.machines = [g.machines EXCEPT ![i] = up.machine]]
         IN  [g |-> IF up.delta > 0 THEN CheckMachineVictory(g1) ELSE g1, changed |-> up.delta]
    ELSE LET down == DecreaseLevel(g.machines[i], -delta)
         IN  [g |-> [g EXCEPT !.machines = [g.machines EXCEPT ![i] = down.machine]],
              changed |-> -down.delta]

RecordUpgrades(wp, n) == IF n <= 0 THEN wp ELSE RecordUpgrades(RecordUpgrade(wp), n - 1)

\* _change_machine_level(machine, delta, reason, record_progress): [g, changed]
ChangeMachineLevel(g, i, delta, record_progress) ==
    IF delta = 0 THEN [g |-> g, changed |-> 0]
    ELSE IF delta > 0
    THEN LET up == IncreaseLevel(g.machines[i], delta)
             g1 == [g EXCEPT !.machines = [g.machines EXCEPT ![i] = up.machine],
                             !.world_progress = IF record_progress
                                                THEN RecordUpgrades(g.world_progress, up.delta)
                                                ELSE g.world_progress]
         IN  [g |-> IF up.delta > 0 THEN CheckMachineVictory(g1) ELSE g1, changed |-> up.delta]
    ELSE LET down == DecreaseLevel(g.machines[i], -delta)
         IN  [g |-> [g EXCEPT !.machines = [g.machines EXCEPT ![i] = down.machine]],
              changed |-> -down.delta]

RECURSIVE HolderBoost(_, _)
\* while holder >= threshold and neutral.level < max: holder -= threshold; level up
HolderBoost(g, holder) ==
    LET threshold == Max(1, NEUTRAL_HOLDER_THRESHOLD)
    IN  IF holder >= threshold /\ g.machines[NEUTRAL].level < MACHINE_MAX_LEVEL
        THEN HolderBoost(ChangeMachineLevel(g, NEUTRAL, 1, FALSE).g, holder - threshold)
        ELSE [g |-> g, holder |-> holder]

RECURSIVE HolderDrain(_, _)
\* while holder <= -threshold and neutral.level > 1: holder += threshold; level down
HolderDrain(g, holder) ==
    LET threshold == Max(1, NEUTRAL_HOLDER_THRESHOLD)
    IN  IF holder <= -threshold /\ g.machines[NEUTRAL].level > 1
        THEN HolderDrain(ChangeMachineLevel(g, NEUTRAL, -1, FALSE).g, holder + threshold)
        ELSE [g |-> g, holder |-> holder]

\* An adjustment that stores the holder as it was before the level changes took
\* their thresholds out of it.
AdjustNeutralHolderNoCarry(g, delta) ==
    LET boosted == HolderBoost(g, g.neutral_holder + delta)
        drained == HolderDrain(boosted.g, boosted.holder)
    IN  [drained.g EXCEPT !.neutral_holder =
            Max(NEUTRAL_HOLDER_MIN, Min(NEUTRAL_HOLDER_MAX, g.neutral_holder + delta))]

\* _adjust_neutral_holder(delta, reason)
\* A holder that only adds up the day results.
AdjustNeutralHolderAddsUp(g, delta) ==
    [g EXCEPT !.neutral_holder = g.neutral_holder + delta]

AdjustNeutralHolder(g, delta) ==
    LET boosted == HolderBoost(g, g.neutral_holder + delta)
        drained == HolderDrain(boosted.g, boosted.holder)
    IN  [drained.g EXCEPT !.neutral_holder =
            Max(NEUTRAL_HOLDER_MIN, Min(NEUTRAL_HOLDER_MAX, drained.holder))]

\* _apply_holder_day_result(no_upgrades)
ApplyHolderDayResult(g, no_upgrades) ==
    LET g1 == [Logged(Counted(g, "holder_results"), "day_result",
                      IF no_upgrades THEN "bonus" ELSE "penalty")
                 EXCEPT !.night_results = @ + 1]
    IN  IF no_upgrades
        THEN IF NEUTRAL_HOLDER_NO_UPGRADE_BONUS # 0
             THEN AdjustNeutralHolder(g1, NEUTRAL_HOLDER_NO_UPGRADE_BONUS) ELSE g1
        ELSE IF NEUTRAL_HOLDER_UPGRADE_PENALTY # 0
             THEN AdjustNeutralHolder(g1, -NEUTRAL_HOLDER_UPGRADE_PENALTY) ELSE g1

\* _begin_new_day()
BeginNewDay(g) ==
    LET eod == EndOfDay(g.world_progress)
        g1 == [Counted(g, "begin_days") EXCEPT
                  !.world_progress = eod.wp,
                  !.machines = [i \in DOMAIN g.machines |-> ResetDailyState(g.machines[i])]]
    IN  ApplyHolderDayResult(g1, eod.no_upgrades)

(***************************************************************************)
(* events.py: EventManager.  A tick value of 0 stands for None (Python      *)
(* tests these fields by truthiness, so 0 and None behave alike).  Times    *)
(* are milliseconds of pygame.time.get_ticks().                             *)
(***************************************************************************)
NoTime == 0
HINT_LONG_MS == 2000      \* radio_preannounce_with_battery_sec * 1000
HINT_SHORT_MS == 1000     \* radio_preannounce_without_battery_sec * 1000

\* EventManager.__init__
NewEvents ==
    [ night_active |-> FALSE, current_event |-> NoEvent, next_event_time |-> NoTime,
      hint_time |-> NoTime, long_hint_enabled |-> FALSE ]

\* _schedule_hint()
ScheduleHint(ev, tick) ==
    IF ~(ev.night_active /\ ev.next_event_time # NoTime)
    THEN [ev EXCEPT !.hint_time = NoTime]
    ELSE LET delta == IF ev.long_hint_enabled THEN HINT_LONG_MS ELSE HINT_SHORT_MS
             hint_at == Max(tick, ev.next_event_time - delta)
         IN  [ev EXCEPT !.hint_time = IF hint_at < ev.next_event_time THEN hint_at ELSE NoTime]

\* set_long_hint(enabled)
SetLongHint(ev, enabled, tick) ==
    IF ev.long_hint_enabled = enabled THEN ev
    ELSE ScheduleHint([ev EXCEPT !.long_hint_enabled = enabled], tick)

\* end_night()
EndNight(ev) ==
    [ev EXCEPT !.night_active = FALSE, !.current_event = NoEvent,
               !.next_event_time = NoTime, !.hint_time = NoTime]

\* A night that sets the deadline of its event to twice the delay.
BeginNightLate(ev, definitions, start_tick, delay_ms, choice) ==
    IF definitions = <<>> THEN EndNight(ev)
    ELSE ScheduleHint([ev EXCEPT !.night_active = TRUE,
                                 !.current_event = definitions[choice],
                                 !.next_event_time = start_tick + 2 * delay_ms],
                      start_tick)

\* begin_night(start_tick, delay_ms) with self.definitions = definitions; `choice` is
\* the index random.choice picks
BeginNight(ev, definitions, start_tick, delay_ms, choice) ==
    IF definitions = <<>> THEN EndNight(ev)
    ELSE ScheduleHint([ev EXCEPT !.night_active = TRUE,
                                 !.current_event = definitions[choice],
                                 !.next_event_time = start_tick + delay_ms],
                      start_tick)

\* _on_radio_hint(long_hint)
\* A hint callback that uses up two batteries for a long hint.
OnRadioHintTwoBatteries(g, long_hint, tick) ==
    IF ~long_hint THEN g
    ELSE IF g.radio_batteries <= 0
    THEN [g EXCEPT !.events = SetLongHint(g.events, FALSE, tick)]
    ELSE LET remaining == g.radio_batteries - 2
         IN  [g EXCEPT !.radio_batteries = remaining,
                       !.events = IF remaining <= 0 THEN SetLongHint(g.events, FALSE, tick)
                                  ELSE g.events]

OnRadioHint(g, long_hint, tick) ==
    IF ~long_hint THEN g
    ELSE IF g.radio_batteries <= 0
    THEN [g EXCEPT !.events = SetLongHint(g.events, FALSE, tick)]
    ELSE LET remaining == g.radio_batteries - 1
         IN  [g EXCEPT !.radio_batteries = remaining,
                       !.events = IF remaining <= 0 THEN SetLongHint(g.events, FALSE, tick)
                                  ELSE g.events]

\* EventManager.update(player_inventory): [g, result] with result "none", "success"
\* or "failure"
EventsUpdate(g, tick) ==
    LET ev == g.events
    IN  IF ~(ev.night_active /\ ev.next_event_time # NoTime /\ ev.current_event # NoEvent)
        THEN [g |-> g, result |-> "none"]
        ELSE LET hinted == IF ev.hint_time # NoTime /\ tick >= ev.hint_time
                           THEN LET g1 == OnRadioHint(
                                              [(IF ev.long_hint_enabled
                                                THEN Counted(Counted(g, "hints"), "long_hints")
                                                ELSE Counted(g, "hints"))
                                                 EXCEPT !.event_hints = @ + 1],
                                              ev.long_hint_enabled, tick)
                                IN  [g1 EXCEPT !.events = [g1.events EXCEPT !.hint_time = NoTime]]
                           ELSE g
             IN  IF tick < hinted.events.next_event_time
                 THEN [g |-> hinted, result |-> "none"]
                 ELSE LET r == ResolveEvent(hinted.inventory, hinted.events.current_event)
                      IN  [g |-> [hinted EXCEPT
                                    !.inventory = r.slots,
                                    !.events = [hinted.events EXCEPT
                                                  !.current_event = NoEvent,
                                                  !.next_event_time = NoTime,
                                                  !.hint_time = NoTime]],
                           result |-> IF r.success THEN "success" ELSE "failure"]

(***************************************************************************)
(* playing.py: the clock, the border and the day and night hooks.  Times of *)
(* day are minutes, frame times milliseconds; the settings are chosen so    *)
(* that every product the code computes in floating point is an integer.    *)
(* Where the code draws at random or depends on where the player and the    *)
(* other sprites stand, a handler yields the set of its possible results.   *)
(***************************************************************************)
DAY_START_HOUR == 6
DAY_END_HOUR == 20
TIME_SPEED_MULTIPLIER == 300     \* minutes of game time per second
NIGHT_TRANSITION_MS == 1500      \* night_transition_duration = max(1, lighting_transition_sec) * 1.5
SAFE_HALF_WIDTH == 40
SAFE_HALF_HEIGHT == 30
INITIAL_BORDER_HALF_WIDTH == 100
INITIAL_BORDER_HALF_HEIGHT == 60
GHOST_SPAWN_INTERVAL_MS == 500
GHOST_MAX_COUNT == 1
NPC_MAX_COUNT == 1
MAX_DT_MS == 100                 \* dt = min(dt, 0.1)

Bind(S, F(_)) == UNION {F(x) : x \in S}

\* What may be blocked when a day's resources are refreshed.
BlockedInputs == {{}, {1}}

\* A border reset that keeps the shrink speed it finds.
ResetBorderKeepSpeed(g) ==
    [g EXCEPT !.border_half_width = INITIAL_BORDER_HALF_WIDTH,
              !.border_half_height = INITIAL_BORDER_HALF_HEIGHT]

\* _initial_border_extents() and _recalculate_border_shrink_speed(); speeds in px/s
ResetBorder(g) ==
    LET duration == Max(100, NIGHT_TRANSITION_MS)
    IN  [g EXCEPT
           !.border_half_width = INITIAL_BORDER_HALF_WIDTH,
           !.border_half_height = INITIAL_BORDER_HALF_HEIGHT,
           !.border_shrink_speed_x =
               (Max(0, INITIAL_BORDER_HALF_WIDTH - g.border_target_half_width) * 1000) \div duration,
           !.border_shrink_speed_y =
               (Max(0, INITIAL_BORDER_HALF_HEIGHT - g.border_target_half_height) * 1000) \div duration]

\* _spawn_day_hunter()
SpawnDayHunter(g) ==
    [Counted(g, "hunter_spawns") EXCEPT !.day_hunter = TRUE, !.day_hunter_engaged = FALSE]

\* _despawn_day_hunter()
DespawnDayHunter(g) == [g EXCEPT !.day_hunter = FALSE, !.day_hunter_engaged = FALSE]

\* A day start that leaves the night's event scheduled.
OnDayStartKeepsEvent(g, tick) ==
    LET g1 == ResetBorder([Counted(g, "day_starts") EXCEPT !.is_night = FALSE, !.ghosts = 0])
        refreshed == Bind(BlockedInputs,
                          LAMBDA blocked : RefreshDayResources(Counted(g1, "refreshes"), blocked))
    IN  { SpawnDayHunter([g2 EXCEPT
                        !.givers = [i \in DOMAIN g2.givers |->
                                       [g2.givers[i] EXCEPT !.used_today = FALSE]],
                        !.npcs = n])
          : g2 \in refreshed, n \in 0..g.npc_max_count }

\* _on_day_start(): the possible results
OnDayStart(g, tick) ==
    LET g0 == Logged(g, "ended", [taken |-> TRUE, night_ms |-> g.night_ms, ghosts |-> g.ghosts,
                                  border_half_width |-> g.border_half_width,
                                  border_half_height |-> g.border_half_height])
        g1 == ResetBorder([Counted(g0, "day_starts") EXCEPT
                  !.is_night = FALSE,
                  !.events = EndNight(g.events),
                  !.ghosts = 0])
        refreshed == Bind(BlockedInputs,
                          LAMBDA blocked : RefreshDayResources(Counted(g1, "refreshes"), blocked))
    IN  { LET g3 == SpawnDayHunter([g2 EXCEPT
                        !.givers = [i \in DOMAIN g2.givers |->
                                       [g2.givers[i] EXCEPT !.used_today = FALSE]],
                        !.npcs = n])
          IN  IF g3.events.long_hint_enabled
              THEN [g3 EXCEPT !.events = SetLongHint(g3.events, FALSE, tick)]
              ELSE g3
          : g2 \in refreshed, n \in 0..g.npc_max_count }

\* A night start that leaves the wandering NPCs of the day on the map.
OnNightStartKeepsNpcs(g, tick) ==
    { DespawnDayHunter(ResetBorder([Counted(g, "night_starts") EXCEPT
          !.is_night = TRUE,
          !.events = BeginNight(g.events, g.event_definitions, tick,
                                g.event_night_delay_ms, choice),
          !.event_hints = 0,
          !.night_ms = 0,
          !.night_day = g.day,
          !.night_results = 0,
          !.next_ghost_spawn_ms = tick + GHOST_SPAWN_INTERVAL_MS]))
      : choice \in IF g.event_definitions = <<>> THEN {0} ELSE DOMAIN g.event_definitions }

\* _on_night_start(): the possible results, one for each event random.choice may pick
OnNightStart(g, tick) ==
    { DespawnDayHunter(ResetBorder([Counted(g, "night_starts") EXCEPT
          !.is_night = TRUE,
          !.events = BeginNight(g.events, g.event_definitions, tick,
                                g.event_night_delay_ms, choice),
          !.event_hints = 0,
          !.npcs = 0,
          !.night_ms = 0,
          !.night_day = g.day,
          !.night_results = 0,
          !.next_ghost_spawn_ms = tick + GHOST_SPAWN_INTERVAL_MS]))
      : choice \in IF g.event_definitions = <<>> THEN {0} ELSE DOMAIN g.event_definitions }

\* A clock that counts the day at midnight and leaves the day's bookkeeping out.
AdvanceTimeNoBegin(g, tick, dt) ==
    LET minutes == g.time_minutes + (dt * TIME_SPEED_MULTIPLIER) \div 1000
        g1 == IF minutes >= 24 * 60
              THEN [Counted(g, "wraps") EXCEPT !.time_minutes = minutes - 24 * 60, !.day = g.day + 1]
              ELSE [g EXCEPT !.time_minutes = minutes]
        day_time == DAY_START_HOUR * 60 <= g1.time_minutes /\ g1.time_minutes < DAY_END_HOUR * 60
    IN  IF day_time /\ g1.is_night THEN OnDayStart([g1 EXCEPT !.is_night = FALSE], tick)
        ELSE IF ~day_time /\ ~g1.is_night THEN OnNightStart([g1 EXCEPT !.is_night = TRUE], tick)
        ELSE {g1}

\* _advance_time(dt)
AdvanceTime(g, tick, dt) ==
    LET minutes == g.time_minutes + (dt * TIME_SPEED_MULTIPLIER) \div 1000
        g1 == IF minutes >= 24 * 60
              THEN BeginNewDay([Counted(g, "wraps") EXCEPT
                                   !.time_minutes = minutes - 24 * 60,
                                   !.day = g.day + 1])
              ELSE [g EXCEPT !.time_minutes = minutes]
        day_time == DAY_START_HOUR * 60 <= g1.time_minutes /\ g1.time_minutes < DAY_END_HOUR * 60
    IN  IF day_time /\ g1.is_night THEN OnDayStart([g1 EXCEPT !.is_night = FALSE], tick)
        ELSE IF ~day_time /\ ~g1.is_night THEN OnNightStart([g1 EXCEPT !.is_night = TRUE], tick)
        ELSE {g1}

\* _update_lighting(dt); the light level counts milliseconds of transition, so 0.0 is 0
\* and 1.0 is NIGHT_TRANSITION_MS
UpdateLighting(g, dt) ==
    LET target == IF g.is_night THEN NIGHT_TRANSITION_MS ELSE 0
    IN  IF g.light_level < target
        THEN [g EXCEPT !.light_level = Min(target, g.light_level + dt)]
        ELSE IF g.light_level > target
        THEN [g EXCEPT !.light_level = Max(target, g.light_level - dt)]
        ELSE g

\* A border update that leaves the height alone.
UpdateBorderWidthOnly(g, dt) ==
    IF ~g.is_night THEN g
    ELSE [g EXCEPT !.border_half_width =
             Max(g.border_target_half_width,
                 g.border_half_width - (g.border_shrink_speed_x * dt) \div 1000)]

\* A border update that lets the extents run past the target.
UpdateBorderUnclamped(g, dt) ==
    IF ~g.is_night THEN g
    ELSE [g EXCEPT
            !.border_half_width = g.border_half_width - (g.border_shrink_speed_x * dt) \div 1000,
            !.border_half_height = g.border_half_height - (g.border_shrink_speed_y * dt) \div 1000]

\* _update_border(dt)
UpdateBorder(g, dt) ==
    IF ~g.is_night THEN g
    ELSE LET wide == g.border_half_width > g.border_target_half_width
             high == g.border_half_height > g.border_target_half_height
         IN  IF ~wide /\ ~high
             THEN [g EXCEPT !.border_half_width = g.border_target_half_width,
                            !.border_half_height = g.border_target_half_height]
             ELSE [g EXCEPT
                     !.border_half_width =
                         IF wide THEN Max(g.border_target_half_width,
                                          g.border_half_width - (g.border_shrink_speed_x * dt) \div 1000)
                         ELSE g.border_half_width,
                     !.border_half_height =
                         IF high THEN Max(g.border_target_half_height,
                                          g.border_half_height - (g.border_shrink_speed_y * dt) \div 1000)
                         ELSE g.border_half_height]

\* A forced day that leaves the clock where the event found it.
ForceNewDayKeepsClock(g, tick) ==
    OnDayStart(BeginNewDay(
        [Logged(g, "forced", [taken |-> TRUE, day |-> g.day, time_minutes |-> g.time_minutes,
                             neutral_level |-> g.machines[NEUTRAL].level,
                              wraps |-> g.log.wraps, begin_days |-> g.log.begin_days])
           EXCEPT !.events = EndNight(g.events), !.is_night = FALSE, !.light_level = 0,
                  !.day = g.day + 1]), tick)

\* A forced day that skips the day's bookkeeping.
ForceNewDayNoBegin(g, tick) ==
    OnDayStart([Logged(g, "forced", [taken |-> TRUE, day |-> g.day, time_minutes |-> g.time_minutes,
                             neutral_level |-> g.machines[NEUTRAL].level,
                             wraps |-> g.log.wraps, begin_days |-> g.log.begin_days])
                  EXCEPT !.events = EndNight(g.events), !.is_night = FALSE, !.light_level = 0,
                         !.time_minutes = DAY_START_HOUR * 60, !.day = g.day + 1], tick)

\* _force_new_day()
ForceNewDay(g, tick) ==
    OnDayStart(BeginNewDay(
        [Logged(g, "forced", [taken |-> TRUE, day |-> g.day, time_minutes |-> g.time_minutes,
                             neutral_level |-> g.machines[NEUTRAL].level,
                              wraps |-> g.log.wraps, begin_days |-> g.log.begin_days])
           EXCEPT !.events = EndNight(g.events), !.is_night = FALSE, !.light_level = 0,
                  !.time_minutes = DAY_START_HOUR * 60, !.day = g.day + 1]), tick)

(***************************************************************************)
(* playing.py: hazards, pickups, event outcomes, and update(dt).            *)
(***************************************************************************)
GIVER_COUNT == 3
GIVER_REWARD_MIN == 2
GIVER_REWARD_MAX == 2
GIVER_COOLDOWN_MS == 1000

\* Candy and items held; the player stops walking onto items at MaxCarried.
Held(g) == SumOver(g.candy_stockpile, CandyKinds)
           + SumOver([i \in DOMAIN g.inventory |-> g.inventory[i].count], DOMAIN g.inventory)

\* _collect_candy(candy_type, amount): the possible results
CollectCandy(g, kind, amount) ==
    { [g EXCEPT !.candy_stockpile = StockAdd(g.candy_stockpile, kind, Max(0, amount) + bonus)]
      : bonus \in BonusCounts(g, kind, amount) }

RECURSIVE CollectRewards(_, _)
\* for candy in CANDY_TYPES: self._collect_candy(candy, self.event_success_candy_reward)
CollectRewards(g, i) ==
    IF i > Len(CANDY_TYPES) THEN {g}
    ELSE Bind(CollectCandy(g, CANDY_TYPES[i], EVENT_SUCCESS_CANDY_REWARD),
              LAMBDA g2 : CollectRewards(g2, i + 1))

\* CandyGiver.ready(now)
GiverReady(giver, tick) == ~giver.used_today /\ tick >= giver.cooldown_until

\* A giver that gives again as soon as its cooldown has passed.
TryInteractGiverAnyDay(g, i, kind, tick) ==
    IF tick >= g.givers[i].cooldown_until
    THEN { [gave |-> TRUE,
            g |-> [g2 EXCEPT !.givers = [g2.givers EXCEPT ![i] =
                      [cooldown_until |-> tick + GIVER_COOLDOWN_MS, used_today |-> TRUE]]]]
           : g2 \in UNION { CollectCandy(g, kind, amount)
                            : amount \in GIVER_REWARD_MIN..GIVER_REWARD_MAX } }
    ELSE { [gave |-> FALSE, g |-> g] }

\* try_interact() within reach of giver i, the gift being of candy `kind`: the
\* possible [gave, g]
TryInteractGiver(g, i, kind, tick) ==
    IF GiverReady(g.givers[i], tick)
    THEN { [gave |-> TRUE,
            g |-> [g2 EXCEPT !.givers = [g2.givers EXCEPT ![i] =
                      [cooldown_until |-> tick + GIVER_COOLDOWN_MS, used_today |-> TRUE]]]]
           : g2 \in UNION { CollectCandy(g, kind, amount)
                            : amount \in GIVER_REWARD_MIN..GIVER_REWARD_MAX } }
    ELSE { [gave |-> FALSE, g |-> g] }

CANDY_RESPAWN_DELAY_MS == 200
CANDY_RESPAWN_BATCH == 1
BATTERY_RESPAWN_DELAY_MS == 300
BATTERY_RESPAWN_BATCH == 1

\* _schedule_candy_respawn(candy_type); nothing in the program calls it
ScheduleCandyRespawn(g, kind, tick) ==
    IF ~g.candy_respawns_enabled THEN g
    ELSE [g EXCEPT !.candy_respawn_schedule = Append(@, <<tick + CANDY_RESPAWN_DELAY_MS, kind>>)]

\* _schedule_battery_respawn(); nothing in the program calls it
ScheduleBatteryRespawn(g, tick) ==
    IF ~g.battery_respawns_enabled THEN g
    ELSE [g EXCEPT !.battery_respawn_schedule = Append(@, tick + BATTERY_RESPAWN_DELAY_MS)]

RECURSIVE CandyBatches(_, _, _)
\* for _, candy_type in ready: spawn up to candy_respawn_batch of that kind
CandyBatches(g, ready, blocked) ==
    IF ready = <<>> THEN {g}
    ELSE Bind(SpawnCandyUpTo(g, Head(ready)[2], blocked, Max(1, CANDY_RESPAWN_BATCH)),
              LAMBDA g2 : CandyBatches(g2, Tail(ready), blocked))

\* _update_candy_respawns(): the set of possible g
UpdateCandyRespawns(g, tick, blocked) ==
    IF ~g.candy_respawns_enabled THEN {g}
    ELSE LET ready == SelectSeq(g.candy_respawn_schedule, LAMBDA e : e[1] <= tick)
         IN  IF ready = <<>> THEN {g}
             ELSE CandyBatches([g EXCEPT !.candy_respawn_schedule =
                                   SelectSeq(g.candy_respawn_schedule, LAMBDA e : e[1] > tick)],
                               ready, blocked)

RECURSIVE BatteryBatches(_, _, _)
\* for _ in ready: spawn up to battery_respawn_batch; if spawned == 0: break
BatteryBatches(g, n, blocked) ==
    IF n = 0 THEN {g}
    ELSE Bind(SpawnBatteryUpTo(g, blocked, Max(1, BATTERY_RESPAWN_BATCH)),
              LAMBDA g2 : IF g2.battery_active_count = g.battery_active_count THEN {g2}
                          ELSE BatteryBatches(g2, n - 1, blocked))

\* _update_battery_respawns(): the set of possible g
UpdateBatteryRespawns(g, tick, blocked) ==
    IF ~g.battery_respawns_enabled THEN {g}
    ELSE IF g.battery_respawn_schedule = <<>> THEN {g}
    ELSE LET ready == SelectSeq(g.battery_respawn_schedule, LAMBDA t : t <= tick)
         IN  IF ready = <<>> THEN {g}
             ELSE BatteryBatches([g EXCEPT !.battery_respawn_schedule =
                                     SelectSeq(g.battery_respawn_schedule, LAMBDA t : t > tick)],
                                 Len(ready), blocked)

\* self._update_candy_respawns(); self._update_battery_respawns()
UpdateRespawns(g, tick) ==
    Bind(BlockedInputs, LAMBDA blocked :
        Bind(UpdateCandyRespawns(g, tick, blocked),
             LAMBDA g1 : UpdateBatteryRespawns(g1, tick, blocked)))

\* _update_ghosts(dt): a ghost is spawned when one is due; then either a ghost touches
\* the player, or the ghosts that left the world are dropped
UpdateGhosts(g, tick) ==
    IF ~g.is_night THEN {g}
    ELSE LET g1 == IF g.ghosts < GHOST_MAX_COUNT /\ tick >= g.next_ghost_spawn_ms
                   THEN [g EXCEPT !.ghosts = g.ghosts + 1,
                                  !.next_ghost_spawn_ms = tick + GHOST_SPAWN_INTERVAL_MS]
                   ELSE g
         IN  { [g1 EXCEPT !.ghosts = n] : n \in 0..g1.ghosts }
             \cup (IF g1.ghosts > 0
                   THEN {[Logged(g1, "caught", "ghost") EXCEPT !.menu_signals = g1.menu_signals + 1]}
                   ELSE {})

\* _update_day_hunter(dt): engaged_now is whether the player stands in the trigger
\* region outside the safe zone
UpdateDayHunter(g) ==
    IF ~g.day_hunter THEN {g}
    ELSE IF g.is_night THEN {DespawnDayHunter(g)}
    ELSE { [g EXCEPT !.day_hunter_engaged = engaged_now] : engaged_now \in BOOLEAN }
         \cup {[Logged(g, "caught", "hunter") EXCEPT !.day_hunter_engaged = TRUE,
                                                   !.menu_signals = g.menu_signals + 1]}

\* _handle_pickups(): the player's rect touches no item or one item
HandlePickups(g) ==
    {g} \cup (IF Held(g) >= MaxCarried THEN {}
              ELSE Bind(g.items, LAMBDA it : PickupItem(g, it)))

\* An event update whose backlash is not recorded as an upgrade of the day.
UpdateEventsNoRecord(g, tick) ==
    LET r == EventsUpdate(g, tick)
    IN  IF r.result = "none" THEN {r.g}
        ELSE IF r.result = "success"
        THEN Bind(CollectRewards(Logged(r.g, "resolved", "success"), 1),
                  LAMBDA g2 : ForceNewDay(g2, tick))
        ELSE LET backlash == ChangeMachineLevel(Logged(r.g, "resolved", "failure"), NEUTRAL,
                                                Max(1, EVENT_FAILURE_NEUTRAL_UPGRADE_LEVELS), FALSE)
             IN  ForceNewDay(
                     Logged(backlash.g, "backlash",
                            [taken |-> TRUE, changed |-> backlash.changed,
                             level |-> g.machines[NEUTRAL].level,
                             level_after |-> backlash.g.machines[NEUTRAL].level,
                             world_progress |-> g.world_progress,
                             world_progress_after |-> backlash.g.world_progress,
                             inventory |-> g.inventory,
                             inventory_after |-> backlash.g.inventory]),
                     tick)

\* _update_events()
UpdateEvents(g, tick) ==
    LET r == EventsUpdate(g, tick)
    IN  IF r.result = "none" THEN {r.g}
        ELSE IF r.result = "success"
        THEN Bind(CollectRewards(Logged(r.g, "resolved", "success"), 1),
                  LAMBDA g2 : ForceNewDay(g2, tick))
        ELSE LET backlash == ChangeMachineLevel(Logged(r.g, "resolved", "failure"), NEUTRAL,
                                                Max(1, EVENT_FAILURE_NEUTRAL_UPGRADE_LEVELS), TRUE)
             IN  ForceNewDay(
                     Logged(backlash.g, "backlash",
                            [taken |-> TRUE, changed |-> backlash.changed,
                             level |-> g.machines[NEUTRAL].level,
                             level_after |-> backlash.g.machines[NEUTRAL].level,
                             world_progress |-> g.world_progress,
                             world_progress_after |-> backlash.g.world_progress,
                             inventory |-> g.inventory,
                             inventory_after |-> backlash.g.inventory]),
                     tick)

\* night_ms observes how much simulated time the border of this night has been given
NightAged(g, dt) == IF g.is_night THEN [g EXCEPT !.night_ms = g.night_ms + dt] ELSE g

\* An update that runs on after victory was triggered.
UpdateAfterVictory(g, tick, frame_ms) ==
    LET dt == Min(frame_ms, MAX_DT_MS)
        timed == AdvanceTime([g EXCEPT !.log = EmptyLog], tick, dt)
        shrunk == {UpdateBorder(UpdateLighting(NightAged(g1, dt), dt), dt) : g1 \in timed}
        respawned == Bind(shrunk, LAMBDA g1 : UpdateRespawns(g1, tick))
        haunted == Bind(respawned, LAMBDA g1 : UpdateGhosts(g1, tick))
        hunted == Bind(haunted, LAMBDA g1 : UpdateDayHunter(g1))
        checked == {CheckMachineVictory(g1) : g1 \in hunted}
    IN  Bind(checked, LAMBDA g1 : Bind(HandlePickups(g1), LAMBDA g2 : UpdateEvents(g2, tick)))

\* update(dt) with pygame.time.get_ticks() = tick: the possible results
Update(g, tick, frame_ms) ==
    IF g.victory_triggered THEN {g}
    ELSE LET dt == Min(frame_ms, MAX_DT_MS)
             timed == AdvanceTime([g EXCEPT !.log = EmptyLog], tick, dt)
             shrunk == {UpdateBorder(UpdateLighting(NightAged(g1, dt), dt), dt) : g1 \in timed}
             respawned == Bind(shrunk, LAMBDA g1 : UpdateRespawns(g1, tick))
             haunted == Bind(respawned, LAMBDA g1 : UpdateGhosts(g1, tick))
             hunted == Bind(haunted, LAMBDA g1 : UpdateDayHunter(g1))
             checked == {CheckMachineVictory(g1) : g1 \in hunted}
         IN  Bind(checked, LAMBDA g1 :
                 IF g1.victory_triggered THEN {g1}
                 ELSE Bind(HandlePickups(g1), LAMBDA g2 : UpdateEvents(g2, tick)))

RecipeNames == <<"ClothesPin", "PaperShip", "Dollhouse", "Umbrella">>

\* A crafting that keeps the ingredients of an item the inventory did not take.
CraftRecipeNoRefund(g, name) ==
    LET recipe == RECIPES[name]
        result == RecipeResult[name]
    IN  IF ~CanAfford(g.candy_stockpile, recipe) THEN [ok |-> FALSE, g |-> g, msgs |-> 1]
        ELSE IF g.inventory_full_craft_blocks /\ ~InvCanAdd(g.inventory, result, 1)
        THEN [ok |-> FALSE, g |-> g, msgs |-> 1]
        ELSE LET c == ConsumeRecipe(g.candy_stockpile, recipe)
                 a == InvAdd(g.inventory, result, 1)
             IN  IF ~c.ok THEN [ok |-> FALSE, g |-> g, msgs |-> 0]
                 ELSE IF a.leftover > 0
                 THEN [ok |-> FALSE,
                       g |-> [g EXCEPT !.inventory = a.slots, !.candy_stockpile = c.stock],
                       msgs |-> 1]
                 ELSE [ok |-> TRUE,
                       g |-> [g EXCEPT !.inventory = a.slots, !.candy_stockpile = c.stock],
                       msgs |-> 0]

\* _craft_recipe(result, recipe): [ok, g]
CraftRecipe(g, name) ==
    LET recipe == RECIPES[name]
        result == RecipeResult[name]
    IN  IF ~CanAfford(g.candy_stockpile, recipe) THEN [ok |-> FALSE, g |-> g, msgs |-> 1]
        ELSE IF g.inventory_full_craft_blocks /\ ~InvCanAdd(g.inventory, result, 1)
        THEN [ok |-> FALSE, g |-> g, msgs |-> 1]
        ELSE LET c == ConsumeRecipe(g.candy_stockpile, recipe)
                 a == InvAdd(g.inventory, result, 1)
             IN  IF ~c.ok THEN [ok |-> FALSE, g |-> g, msgs |-> 0]
                 ELSE IF a.leftover > 0
                 THEN [ok |-> FALSE,
                       g |-> [g EXCEPT !.inventory = a.slots,
                                       !.candy_stockpile = StockAddBulk(c.stock, recipe)],
                       msgs |-> 1]
                 ELSE [ok |-> TRUE,
                       g |-> [g EXCEPT !.inventory = a.slots, !.candy_stockpile = c.stock],
                       msgs |-> 0]

(***************************************************************************)
(* The state after PlayingState.__init__.                                  *)
(***************************************************************************)
\* Before the first spawn: the map gives the two pools (random_positions of
\* candy_spawn_count and battery_spawn_count distinct tile centres).
Unspawned(candy_spawn_count, battery_spawn_count) ==
    [ candy_stockpile |-> EmptyStockpile,
      inventory       |-> EmptyInventory,
      machines        |-> [i \in DOMAIN MACHINE_LAYOUT |-> NewMachine(MACHINE_LAYOUT[i])],
      world_progress  |-> [world_exp |-> 0, upgrades_today |-> 0],
      items           |-> {},
      candy_active_counts |-> [k \in CandyKinds |-> 0],
      candy_positions_pool |-> [i \in 1..candy_spawn_count |-> i],
      available_candy_positions |-> [i \in 1..candy_spawn_count |-> i],
      candy_respawn_schedule |-> <<>>,
      candy_respawns_enabled |-> FALSE,
      battery_active_count |-> 0,
      battery_positions_pool |-> [i \in 1..battery_spawn_count |-> i],
      available_battery_positions |-> [i \in 1..battery_spawn_count |-> i],
      battery_respawn_schedule |-> <<>>,
      battery_respawns_enabled |-> FALSE,
      time_minutes    |-> DAY_START_HOUR * 60,
      day             |-> 1,
      is_night        |-> FALSE,
      light_level     |-> 0,
      events          |-> NewEvents,
      event_definitions |-> EVENT_DEFINITIONS,
      event_night_delay_ms |-> 30000,
      neutral_holder  |-> 0,
      border_target_half_width |-> SAFE_HALF_WIDTH,
      border_target_half_height |-> SAFE_HALF_HEIGHT,
      border_half_width |-> INITIAL_BORDER_HALF_WIDTH,
      border_half_height |-> INITIAL_BORDER_HALF_HEIGHT,
      border_shrink_speed_x |-> 0,
      border_shrink_speed_y |-> 0,
      ghosts          |-> 0,
      next_ghost_spawn_ms |-> 0,
      day_hunter      |-> TRUE,
      day_hunter_engaged |-> FALSE,
      npcs            |-> 0,
      npc_max_count   |-> 0,   \* settings["npc_max_count"]
      inventory_full_craft_blocks |-> TRUE,   \* settings.get("inventory_full_craft_blocks", True)
      givers          |-> [i \in 1..GIVER_COUNT |-> [cooldown_until |-> 0, used_today |-> FALSE]],
      radio_batteries |-> 0,
      victory_triggered |-> FALSE,
      menu_signals    |-> 0,
      night_ms        |-> 0,
      night_day       |-> 0,   \* the day counter as the last _on_night_start found it (0: no night yet)
      night_results   |-> 0,   \* calls of _apply_holder_day_result since then
      event_hints     |-> 0,   \* hint broadcasts since the last event was scheduled
      log             |-> EmptyLog ]

\* _spawn_initial_candies(); _spawn_initial_batteries(): the possible states
ConstructedStates(candy_spawn_count, battery_spawn_count, blocked) ==
    UNION { TopUpBatteries(g, blocked)
            : g \in TopUpCandies(ResetBorder(Unspawned(candy_spawn_count, battery_spawn_count)),
                                 blocked, 1) }

\* The constructed state of a map without spawn positions.
Constructed == ResetBorder(Unspawned(0, 0))

NoTrace == [op |-> "init"]

\* the playing state is on top of the state stack
Playing == scene = <<"playing">>

(***************************************************************************)
(* SpecStock: the stockpile under the calls the game makes on it.          *)
(***************************************************************************)
InitStock ==
    /\ now = 0
    /\ game = Constructed
    /\ scene = "playing"
    /\ trace = NoTrace

\* _collect_candy's self.candy_stockpile.add(candy_type, 1)
StockAddStep(k) ==
    /\ game.candy_stockpile[k] < MaxCandy
    /\ game' = [game EXCEPT !.candy_stockpile = StockAdd(@, k, 1)]
    /\ trace' = [op |-> "add", arg |-> k, ret |-> TRUE, pre |-> game]
    /\ UNCHANGED <<now, scene>>

ConsumeRecipeStep(name) ==
    LET r == ConsumeRecipe(game.candy_stockpile, RECIPES[name])
    IN  /\ game' = [game EXCEPT !.candy_stockpile = r.stock]
        /\ trace' = [op |-> "consume_recipe", arg |-> RECIPES[name], ret |-> r.ok, pre |-> game]
        /\ UNCHANGED <<now, scene>>

NextStock ==
    \/ \E k \in CandyKinds : StockAddStep(k)
    \/ \E name \in DOMAIN RECIPES : ConsumeRecipeStep(name)

SpecStock == InitStock /\ [][NextStock]_vars

\* C4: consume_recipe(r) succeeds iff every kind of r is held in at least the
\* required amount; on success exactly r[k] is deducted from each kind of r and
\* nothing else changes; on failure nothing changes at all.
C4_ConsumeRecipeAtomic ==
    trace.op = "consume_recipe" =>
        LET pre == trace.pre.candy_stockpile
            post == game.candy_stockpile
            r == trace.arg
        IN  /\ trace.ret <=> (\A k \in DOMAIN r : pre[k] >= r[k])
            /\ trace.ret =>
                  /\ \A k \in DOMAIN r : post[k] = pre[k] - r[k]
                  /\ \A k \in CandyKinds \ DOMAIN r : post[k] = pre[k]
            /\ ~trace.ret => post = pre
            /\ [game EXCEPT !.candy_stockpile = pre] = trace.pre

\* A recipe was consumed, and another was refused while part of it was held.
C4_Witness ==
    /\ trace.op = "consume_recipe"
    /\ ~trace.ret
    /\ \E k \in DOMAIN trace.arg : trace.pre.candy_stockpile[k] >= trace.arg[k]
    /\ \E k \in CandyKinds : game.candy_stockpile[k] = 0 /\ k \in DOMAIN trace.arg

(***************************************************************************)
(* SpecInventory: the player's inventory under the calls the game makes on *)
(* it (pickups and crafting add, the trash clears a slot) and under event   *)
(* resolution.                                                              *)
(***************************************************************************)
ItemKinds == {DEFAULT_COUNTER_ITEMS[i] : i \in DOMAIN DEFAULT_COUNTER_ITEMS} \cup {"battery"}

\* The definitions resolved here: the defaults, and as settings may give them, a
\* specific requirement of two and a wildcard requirement of one and of three.
ResolveInputs ==
    {EVENT_DEFINITIONS[i] : i \in DOMAIN EVENT_DEFINITIONS}
    \cup {[name |-> "stink", counter_item |-> "Clothes Pin", counter_amount |-> 2],
          [name |-> "self_deprecation", counter_item |-> "any", counter_amount |-> 0],
          [name |-> "self_deprecation", counter_item |-> "any", counter_amount |-> 3]}

InitInventory ==
    /\ now = 0
    /\ game = Constructed
    /\ scene = "playing"
    /\ trace = NoTrace

\* _handle_pickups / _craft_recipe: self.player.inventory.add(item, count)
InvAddStep(item, count) ==
    LET r == InvAdd(game.inventory, item, count)
    IN  /\ game' = [game EXCEPT !.inventory = r.slots]
        /\ trace' = [op |-> "inv_add", arg |-> <<item, count>>, ret |-> r.leftover, pre |-> game]
        /\ UNCHANGED <<now, scene>>

\* TrashUI.drop_index(index): inventory.clear_slot(index)
ClearSlotStep(index) ==
    /\ game.inventory[index] # NoStack
    /\ game' = [game EXCEPT !.inventory = InvClearSlot(@, index)]
    /\ trace' = [op |-> "clear_slot", arg |-> index, ret |-> TRUE, pre |-> game]
    /\ UNCHANGED <<now, scene>>

\* EventManager._resolve_event(player_inventory) with current_event = event
ResolveStep(event) ==
    LET r == ResolveEvent(game.inventory, event)
    IN  /\ game' = [game EXCEPT !.inventory = r.slots]
        /\ trace' = [op |-> "resolve_event", arg |-> event, ret |-> r.success, pre |-> game]
        /\ UNCHANGED <<now, scene>>

NextInventory ==
    \/ \E item \in ItemKinds, count \in 1..2 : InvAddStep(item, count)
    \/ \E index \in DOMAIN EmptyInventory : ClearSlotStep(index)
    \/ \E event \in ResolveInputs : ResolveStep(event)

SpecInventory == InitInventory /\ [][NextInventory]_vars

\* What the inventory holds of each counter kind before kind i, in listed order.
HeldBefore(slots, i) ==
    SumOver([j \in DOMAIN COUNTER_ITEMS |-> IF j < i THEN InvCount(slots, COUNTER_ITEMS[j]) ELSE 0],
            DOMAIN COUNTER_ITEMS)

\* C7: a wildcard resolution succeeds iff the counter kinds together hold the
\* required amount; on success each kind gives, in listed order, what is still
\* required after the kinds before it (so exactly the requirement in total) and no
\* other item changes; on failure the inventory is unchanged.
C7_WildcardGreedy ==
    (trace.op = "resolve_event" /\ trace.arg.counter_item = "any") =>
        LET pre == trace.pre.inventory
            post == game.inventory
            needed == Max(1, trace.arg.counter_amount)
            total == HeldBefore(pre, Len(COUNTER_ITEMS) + 1)
        IN  /\ trace.ret <=> total >= needed
            /\ trace.ret =>
                  /\ \A i \in DOMAIN COUNTER_ITEMS :
                        InvCount(post, COUNTER_ITEMS[i]) =
                            InvCount(pre, COUNTER_ITEMS[i])
                            - Min(InvCount(pre, COUNTER_ITEMS[i]),
                                  Max(0, needed - HeldBefore(pre, i)))
                  /\ HeldBefore(post, Len(COUNTER_ITEMS) + 1) = total - needed
                  /\ InvCount(post, "battery") = InvCount(pre, "battery")
            /\ ~trace.ret => post = pre

\* The scenario of the spec: A (Clothes Pin) = 1, B (Paper Ship) = 2, requirement 2;
\* afterwards A is gone and B is at 1.
C7_Witness ==
    /\ trace.op = "resolve_event" /\ trace.arg.counter_item = "any"
    /\ trace.arg.counter_amount = 2
    /\ InvCount(trace.pre.inventory, "Clothes Pin") = 1
    /\ InvCount(trace.pre.inventory, "Paper Ship") = 2
    /\ trace.ret
    /\ InvCount(game.inventory, "Clothes Pin") = 0
    /\ InvCount(game.inventory, "Paper Ship") = 1

\* C8: a resolution with a specific counter item succeeds iff the inventory holds
\* at least the required count of it; on success exactly that count of the item
\* is removed and no other item changes; on failure the inventory is unchanged.
C8_SpecificResolution ==
    (trace.op = "resolve_event" /\ trace.arg.counter_item # "any") =>
        LET pre == trace.pre.inventory
            post == game.inventory
            item == trace.arg.counter_item
            amount == Max(1, trace.arg.counter_amount)
        IN  /\ trace.ret <=> InvCount(pre, item) >= amount
            /\ trace.ret =>
                  /\ InvCount(post, item) = InvCount(pre, item) - amount
                  /\ \A other \in ItemKinds \ {item} : InvCount(post, other) = InvCount(pre, other)
            /\ ~trace.ret => post = pre

\* A requirement of two was met from three held in two stacks, leaving one.
C8_Witness ==
    /\ trace.op = "resolve_event" /\ trace.arg.counter_item = "Clothes Pin"
    /\ trace.arg.counter_amount = 2
    /\ trace.ret
    /\ InvCount(trace.pre.inventory, "Clothes Pin") = 3
    /\ InvCount(game.inventory, "Clothes Pin") = 1

(***************************************************************************)
(* SpecMachine: the machines under Machine.try_upgrade, fed by collected    *)
(* candy.                                                                   *)
(***************************************************************************)
InitMachine ==
    /\ now = 0
    /\ game = Constructed
    /\ scene = "playing"
    /\ trace = NoTrace

\* _collect_candy's self.candy_stockpile.add(candy_type, 1)
CollectStep(k) ==
    /\ SumOver(game.candy_stockpile, CandyKinds) < MaxHeld
    /\ game' = [game EXCEPT !.candy_stockpile = StockAdd(@, k, 1)]
    /\ trace' = [op |-> "add", arg |-> k, ret |-> TRUE, pre |-> game]
    /\ UNCHANGED <<now, scene>>

\* machine.try_upgrade(self.candy_stockpile, self.msglog, self.audio, self.world_progress)
TryUpgradeStep(m) ==
    LET r == TryUpgrade(game.machines[m], game.candy_stockpile, game.world_progress)
    IN  /\ game' = [game EXCEPT !.machines[m] = r.machine,
                                !.candy_stockpile = r.stock,
                                !.world_progress = r.wp]
        /\ trace' = [op |-> "try_upgrade", arg |-> m, ret |-> r.ok, pre |-> game]
        /\ UNCHANGED <<now, scene>>

NextMachine ==
    \/ \E k \in CandyKinds : CollectStep(k)
    \/ \E m \in DOMAIN MACHINE_LAYOUT : TryUpgradeStep(m)

SpecMachine == InitMachine /\ [][NextMachine]_vars

\* C6: try_upgrade on a machine at max level fails and changes neither the
\* machines nor the stockpile; a successful try_upgrade raises that machine's
\* level by exactly 1 and takes exactly the cost listed for the level reached
\* from the stockpile, of the machine's candy kind and of nothing else.
C6_TryUpgrade ==
    trace.op = "try_upgrade" =>
        LET m == trace.arg
            before == trace.pre.machines[m]
            kind == MACHINE_LAYOUT[m].item_key
        IN  /\ before.level = MACHINE_MAX_LEVEL =>
                  /\ ~trace.ret
                  /\ game = trace.pre
            /\ trace.ret =>
                  /\ game.machines[m].level = before.level + 1
                  /\ \A o \in DOMAIN MACHINE_LAYOUT \ {m} : game.machines[o] = trace.pre.machines[o]
                  /\ game.candy_stockpile[kind] =
                        trace.pre.candy_stockpile[kind] - UPGRADE_COSTS[before.level + 1]
                  /\ \A k \in CandyKinds \ {kind} :
                        game.candy_stockpile[k] = trace.pre.candy_stockpile[k]

\* A machine at max level was asked to upgrade with its candy in the stockpile.
C6_Witness ==
    /\ trace.op = "try_upgrade"
    /\ trace.pre.machines[trace.arg].level = MACHINE_MAX_LEVEL
    /\ trace.pre.candy_stockpile[MACHINE_LAYOUT[trace.arg].item_key] >= 2
    /\ ~trace.ret

\* C14, as stated: try_upgrade on the neutral machine is refused whatever the
\* stockpile holds, and changes neither the machines nor the stockpile.
C14_NeutralNotManual ==
    (trace.op = "try_upgrade" /\ trace.arg = NEUTRAL) =>
        /\ ~trace.ret
        /\ game.machines = trace.pre.machines
        /\ game.candy_stockpile = trace.pre.candy_stockpile

(***************************************************************************)
(* SpecHolder: the neutral holder over the days of a session.  A day ends   *)
(* by _begin_new_day; the player may have upgraded machines with the candy  *)
(* collected before, and a night's event may have failed.  `trace.hist`     *)
(* keeps what the last three day transitions found and left.                *)
(***************************************************************************)
HolderStocks ==
    { [k \in CandyKinds |-> IF k = "candy_red" THEN r ELSE IF k = "candy_purple" THEN p ELSE 0]
      : r \in 0..MaxCandy, p \in 0..MaxCandy }
    \cup { [k \in CandyKinds |-> 1] }

InitHolder ==
    /\ now = 0
    /\ game \in {[Constructed EXCEPT !.candy_stockpile = stock] : stock \in HolderStocks}
    /\ scene = "playing"
    /\ trace = [op |-> "init", hist |-> <<>>]

LastTwo(hist) == IF Len(hist) <= 2 THEN hist ELSE SubSeq(hist, Len(hist) - 1, Len(hist))

HolderEntry(before, after) ==
    [ holder |-> before.neutral_holder, level |-> before.machines[NEUTRAL].level,
      no_upgrades |-> before.world_progress.upgrades_today = 0,
      holder_after |-> after.neutral_holder, level_after |-> after.machines[NEUTRAL].level ]

\* _advance_time's or _force_new_day's self._begin_new_day()
HolderDayStep ==
    /\ ~game.victory_triggered
    /\ game.day < MaxDays
    /\ game' = BeginNewDay([game EXCEPT !.log = EmptyLog, !.day = game.day + 1])
    /\ trace' = [op |-> "begin_day", hist |-> Append(LastTwo(trace.hist), HolderEntry(game, game'))]
    /\ UNCHANGED <<now, scene>>

\* _update_events on a failed event: the neutral machine is raised, then the day is
\* forced and begins
HolderFailureStep ==
    /\ ~game.victory_triggered
    /\ game.day < MaxDays
    /\ LET raised == ChangeMachineLevel([game EXCEPT !.log = EmptyLog], NEUTRAL,
                                        Max(1, EVENT_FAILURE_NEUTRAL_UPGRADE_LEVELS), TRUE).g
       IN  /\ game' = BeginNewDay([raised EXCEPT !.day = game.day + 1])
           /\ trace' = [op |-> "failure_day",
                        hist |-> Append(LastTwo(trace.hist), HolderEntry(raised, game'))]
    /\ UNCHANGED <<now, scene>>

\* try_interact() within reach of machine m
HolderUpgradeStep(m) ==
    /\ ~game.victory_triggered
    /\ LET r == TryUpgrade(game.machines[m], game.candy_stockpile, game.world_progress)
           g1 == [game EXCEPT !.log = EmptyLog,
                              !.machines = [game.machines EXCEPT ![m] = r.machine],
                              !.candy_stockpile = r.stock,
                              !.world_progress = r.wp]
       IN  game' = IF r.ok THEN CheckMachineVictory(g1) ELSE g1
    /\ trace' = [op |-> "machine", hist |-> trace.hist]
    /\ UNCHANGED <<now, scene>>

NextHolder ==
    \/ HolderDayStep
    \/ HolderFailureStep
    \/ \E m \in DOMAIN MACHINE_LAYOUT : HolderUpgradeStep(m)

SpecHolder == InitHolder /\ [][NextHolder]_vars

\* C12: when the last three day transitions each followed a day without upgrades,
\* and the first of them found the holder at 0 and the neutral machine below its
\* max level, the three raised the neutral machine by one level in all and left the
\* holder at 2 (threshold 4, bonus 2).
C12_ThreeCalmDays ==
    LET hist == trace.hist
    IN  (/\ trace.op = "begin_day"
         /\ Len(hist) = 3
         /\ \A i \in 1..3 : hist[i].no_upgrades
         /\ hist[1].holder = 0
         /\ hist[1].level < MACHINE_MAX_LEVEL)
        => /\ NEUTRAL_HOLDER_THRESHOLD = 4 /\ NEUTRAL_HOLDER_NO_UPGRADE_BONUS = 2
           /\ \A i \in 1..3 : hist[i].level_after >= hist[i].level
           /\ hist[2].level = hist[1].level_after /\ hist[3].level = hist[2].level_after
           /\ hist[3].level_after = hist[1].level + 1
           /\ game.machines[NEUTRAL].level = hist[1].level + 1
           /\ hist[3].holder_after = 2
           /\ game.neutral_holder = 2

\* Three calm days in a row from a holder of 0: the second one raised the machine.
C12_Witness ==
    /\ trace.op = "begin_day"
    /\ Len(trace.hist) = 3
    /\ \A i \in 1..3 : trace.hist[i].no_upgrades
    /\ trace.hist[1].holder = 0
    /\ trace.hist[1].level < MACHINE_MAX_LEVEL
    /\ trace.hist[2].level_after = trace.hist[2].level + 1
    /\ game.neutral_holder = 2

\* C16, as stated: when a day transition has completed, by the clock or forced after
\* a failed event, no machine has its upgraded-today flag up, the neutral machine
\* included, and the day's count of upgrades is zero.
C16_FlagsDownAfterBeginDay ==
    trace.op \in {"begin_day", "failure_day"} =>
        /\ \A i \in DOMAIN game.machines : ~game.machines[i].upgraded_today
        /\ game.world_progress.upgrades_today = 0

(***************************************************************************)
(* playing.py and entities.py: the ghosts as sprites.  Positions are whole  *)
(* pixels of the world, whose size is the one that gives the border its     *)
(* initial extents about the safe zone's centre; speeds are px/s.  A point  *)
(* is [x, y]; bounds are [left, top, right, bottom]; a rect is              *)
(* [left, top, width, height].                                              *)
(***************************************************************************)
TILE_SIZE == 16
WORLD_WIDTH == 2 * INITIAL_BORDER_HALF_WIDTH
WORLD_HEIGHT == 2 * INITIAL_BORDER_HALF_HEIGHT
SAFE_CENTER_X == INITIAL_BORDER_HALF_WIDTH
SAFE_CENTER_Y == INITIAL_BORDER_HALF_HEIGHT
PLAYER_SPEED == 100
PLAYER_SIZE == 16                 \* the player's sprite is PLAYER_SIZE pixels square
GHOST_SIZE == 16                  \* a ghost's sprite is GHOST_SIZE pixels square
GHOST_SPEED == 100
GHOST_RANDOM_SPEED == 50
GHOST_RANDOM_INTERVAL_MS == 400
GHOST_RANDOM_RADIUS == 40         \* ghost_random_walk_radius_tiles * tile_size
GHOST_PADDING == 4

Abs(n) == IF n < 0 THEN -n ELSE n

\* math.hypot(dx, dy), for the displacements that have a whole length
Hypot(dx, dy) == CHOOSE h \in 0..(Abs(dx) + Abs(dy)) : h * h = dx * dx + dy * dy

NoPoint == [set |-> FALSE]
Point(x, y) == [set |-> TRUE, x |-> x, y |-> y]

\* _safe_bounds()
SafeBounds ==
    [ left |-> SAFE_CENTER_X - SAFE_HALF_WIDTH, top |-> SAFE_CENTER_Y - SAFE_HALF_HEIGHT,
      right |-> SAFE_CENTER_X + SAFE_HALF_WIDTH, bottom |-> SAFE_CENTER_Y + SAFE_HALF_HEIGHT ]

\* _current_border_bounds()
CurrentBorderBounds(w) ==
    [ left |-> SAFE_CENTER_X - w.border_half_width, top |-> SAFE_CENTER_Y - w.border_half_height,
      right |-> SAFE_CENTER_X + w.border_half_width, bottom |-> SAFE_CENTER_Y + w.border_half_height ]

\* _point_in_bounds(x, y, bounds)
PointInBounds(x, y, bounds) ==
    bounds.left <= x /\ x <= bounds.right /\ bounds.top <= y /\ y <= bounds.bottom

\* _push_point_outside_bounds(x, y, bounds, padding): [x, y, moved]; min() keeps the
\* first of the nearest sides in the order left, right, top, bottom
PushPointOutsideBounds(x, y, bounds, padding) ==
    IF x < bounds.left \/ x > bounds.right \/ y < bounds.top \/ y > bounds.bottom
    THEN [x |-> x, y |-> y, moved |-> FALSE]
    ELSE LET d_left == x - bounds.left
             d_right == bounds.right - x
             d_top == y - bounds.top
             d_bottom == bounds.bottom - y
             nearest == Min(Min(d_left, d_right), Min(d_top, d_bottom))
         IN  IF d_left = nearest THEN [x |-> bounds.left - padding, y |-> y, moved |-> TRUE]
             ELSE IF d_right = nearest THEN [x |-> bounds.right + padding, y |-> y, moved |-> TRUE]
             ELSE IF d_top = nearest THEN [x |-> x, y |-> bounds.top - padding, moved |-> TRUE]
             ELSE [x |-> x, y |-> bounds.bottom + padding, moved |-> TRUE]

\* image.get_rect(center=(int(x), int(y))) of a square sprite
SpriteRect(x, y, size) ==
    [left |-> x - size \div 2, top |-> y - size \div 2, width |-> size, height |-> size]

\* pygame.Rect.colliderect
CollideRect(a, b) ==
    /\ a.left < b.left + b.width /\ b.left < a.left + a.width
    /\ a.top < b.top + b.height /\ b.top < a.top + a.height

\* Ghost(x, y, speed)
NewGhost(x, y) ==
    [x |-> x, y |-> y, base_speed |-> GHOST_SPEED, speed |-> GHOST_SPEED,
     random_target |-> NoPoint, next_random_ms |-> 0]

\* A step that is not scaled to the distance: the ghost jumps dx * speed * dt.
GhostMoveUnscaled(ghost, target, dt) ==
    LET dx == target.x - ghost.x
        dy == target.y - ghost.y
    IN  IF dx = 0 /\ dy = 0 THEN ghost
        ELSE [ghost EXCEPT !.x = ghost.x + (dx * ghost.speed * dt) \div 1000,
                           !.y = ghost.y + (dy * ghost.speed * dt) \div 1000]

\* Ghost._move_towards(target, dt)
GhostMoveTowards(ghost, target, dt) ==
    LET dx == target.x - ghost.x
        dy == target.y - ghost.y
        distance == Hypot(dx, dy)
    IN  IF distance = 0 THEN ghost
        ELSE [ghost EXCEPT !.x = ghost.x + (dx * ghost.speed * dt) \div (distance * 1000),
                           !.y = ghost.y + (dy * ghost.speed * dt) \div (distance * 1000)]

\* What random.uniform gives the wandering ghost here: a target straight to the left
\* or to the right, at the least or the greatest radius.
WanderOffsets ==
    LET near == Max(20, (3 * GHOST_RANDOM_RADIUS) \div 10)
    IN  {[x |-> sign * radius, y |-> 0] : sign \in {-1, 1}, radius \in {near, GHOST_RANDOM_RADIUS}}

\* random.randint(interval_min, interval_max): the two ends
WanderIntervals ==
    LET interval_min == Max(200, GHOST_RANDOM_INTERVAL_MS \div 2)
        interval_max == Max(interval_min + 1, (GHOST_RANDOM_INTERVAL_MS * 3) \div 2)
    IN  {interval_min, interval_max}

\* A ghost update whose chase leaves the wander target in place.
GhostUpdateKeepsTarget(ghost, dt, tick, target) ==
    IF target.set
    THEN {GhostMoveTowards([ghost EXCEPT !.speed = ghost.base_speed], target, dt)}
    ELSE LET arrived == /\ ghost.random_target.set
                        /\ Hypot(ghost.random_target.x - ghost.x,
                                 ghost.random_target.y - ghost.y) <= 4
             kept == IF arrived THEN NoPoint ELSE ghost.random_target
             aimed == IF ~kept.set \/ tick >= ghost.next_random_ms
                      THEN {[ghost EXCEPT
                               !.random_target = Point(ghost.x + offset.x, ghost.y + offset.y),
                               !.next_random_ms = tick + interval]
                            : offset \in WanderOffsets, interval \in WanderIntervals}
                      ELSE {[ghost EXCEPT !.random_target = kept]}
         IN  {GhostMoveTowards([g1 EXCEPT !.speed = GHOST_RANDOM_SPEED], g1.random_target, dt)
              : g1 \in aimed}

\* Ghost.update(dt, now, target, random_speed, random_interval, random_radius): the
\* possible results
GhostUpdate(ghost, dt, tick, target) ==
    IF target.set
    THEN {[GhostMoveTowards([ghost EXCEPT !.speed = ghost.base_speed], target, dt)
             EXCEPT !.random_target = NoPoint]}
    ELSE LET arrived == /\ ghost.random_target.set
                        /\ Hypot(ghost.random_target.x - ghost.x,
                                 ghost.random_target.y - ghost.y) <= 4
             kept == IF arrived THEN NoPoint ELSE ghost.random_target
             aimed == IF ~kept.set \/ tick >= ghost.next_random_ms
                      THEN {[ghost EXCEPT
                               !.random_target = Point(ghost.x + offset.x, ghost.y + offset.y),
                               !.next_random_ms = tick + interval]
                            : offset \in WanderOffsets, interval \in WanderIntervals}
                      ELSE {[ghost EXCEPT !.random_target = kept]}
         IN  {GhostMoveTowards([g1 EXCEPT !.speed = GHOST_RANDOM_SPEED], g1.random_target, dt)
              : g1 \in aimed}

\* A correction that keeps the ghosts out of the safe zone only.
KeepGhostOutsideSafeZoneOnly(w, ghost, player_outside_border) ==
    LET pushed == PushPointOutsideBounds(ghost.x, ghost.y, SafeBounds, GHOST_PADDING)
    IN  IF ~pushed.moved THEN ghost
        ELSE [ghost EXCEPT !.x = pushed.x, !.y = pushed.y, !.random_target = NoPoint]

\* _keep_ghost_outside_safe_zone(ghost, player_outside_border)
KeepGhostOutsideSafeZone(w, ghost, player_outside_border) ==
    LET bounds == IF player_outside_border THEN CurrentBorderBounds(w) ELSE SafeBounds
        pushed == PushPointOutsideBounds(ghost.x, ghost.y, bounds, GHOST_PADDING)
    IN  IF ~pushed.moved THEN ghost
        ELSE [ghost EXCEPT !.x = pushed.x, !.y = pushed.y, !.random_target = NoPoint]

\* _spawn_ghost(): the ghosts it may make on the sides "left" and "right", at the
\* height of the safe zone's centre
SpawnGhost(w) ==
    LET bounds == CurrentBorderBounds(w)
        extra == Max(40, (TILE_SIZE * 5) \div 2)
    IN  {NewGhost(bounds.left - extra, SAFE_CENTER_Y), NewGhost(bounds.right + extra, SAFE_CENTER_Y)}

\* Player.update(dt, inputmgr, keys, colliders) away from the walls; key is the
\* arrow held, "none", "left" or "right"
PlayerUpdate(w, key, dt) ==
    LET raw_dx == IF key = "left" THEN -1 ELSE IF key = "right" THEN 1 ELSE 0
    IN  [w EXCEPT !.player = [x |-> w.player.x + (raw_dx * PLAYER_SPEED * dt) \div 1000,
                              y |-> w.player.y]]

RECURSIVE GhostLoop(_, _, _, _, _)
\* for ghost in self.ghosts: ... of _update_ghosts, from the i-th ghost on, and the
\* filter on the world's extent that follows the loop
GhostLoop(w, i, dt, tick, player_outside_border) ==
    IF i > Len(w.ghosts)
    THEN {[w EXCEPT !.ghosts = SelectSeq(w.ghosts, LAMBDA ghost :
                                  /\ 0 <= ghost.x /\ ghost.x <= WORLD_WIDTH
                                  /\ 0 <= ghost.y /\ ghost.y <= WORLD_HEIGHT)]}
    ELSE LET target == IF player_outside_border THEN Point(w.player.x, w.player.y) ELSE NoPoint
         IN  Bind(GhostUpdate(w.ghosts[i], dt, tick, target), LAMBDA updated :
                 LET kept == KeepGhostOutsideSafeZone(w, updated, player_outside_border)
                     w1 == IF kept.x = updated.x /\ kept.y = updated.y THEN w
                           ELSE Logged(w, "pushed", [taken |-> TRUE,
                                                     from |-> Point(updated.x, updated.y),
                                                     ghost |-> kept])
                     w2 == [w1 EXCEPT !.ghosts = [w.ghosts EXCEPT ![i] = kept]]
                 IN  IF CollideRect(SpriteRect(kept.x, kept.y, GHOST_SIZE),
                                    SpriteRect(w.player.x, w.player.y, PLAYER_SIZE))
                     THEN {[Logged(w2, "caught", "ghost") EXCEPT
                               !.menu_signals = w2.menu_signals + 1]}
                     ELSE GhostLoop(w2, i + 1, dt, tick, player_outside_border))

\* _update_ghosts(dt) on the sprites: the possible results
UpdateGhostSprites(w, dt, tick) ==
    IF ~w.is_night THEN {w}
    ELSE LET spawned == IF Len(w.ghosts) < GHOST_MAX_COUNT /\ tick >= w.next_ghost_spawn_ms
                        THEN {[w EXCEPT !.ghosts = Append(w.ghosts, ghost),
                                        !.next_ghost_spawn_ms = tick + GHOST_SPAWN_INTERVAL_MS]
                              : ghost \in SpawnGhost(w)}
                        ELSE {w}
         IN  Bind(spawned, LAMBDA w1 :
                 GhostLoop(w1, 1, dt, tick,
                           ~PointInBounds(w1.player.x, w1.player.y, CurrentBorderBounds(w1))))

(***************************************************************************)
(* SpecGhost: a stretch of a night, frame by frame, with the player walking *)
(* left and right on the line through the safe zone's centre and the ghosts *)
(* spawned and wandering on that line.  The border is the one the night has *)
(* at its start, midway through its shrinking, or at its end.               *)
(***************************************************************************)
PlayerStarts == {SAFE_CENTER_X, SAFE_CENTER_X - SAFE_HALF_WIDTH, SAFE_CENTER_X - SAFE_HALF_WIDTH - 30}

GhostBorders ==
    { [half_width |-> INITIAL_BORDER_HALF_WIDTH, half_height |-> INITIAL_BORDER_HALF_HEIGHT],
      [half_width |-> 60, half_height |-> 40],
      [half_width |-> SAFE_HALF_WIDTH, half_height |-> SAFE_HALF_HEIGHT] }

InitGhost ==
    /\ now = 0
    /\ game \in { [ is_night |-> TRUE,
                    player |-> [x |-> px, y |-> SAFE_CENTER_Y],
                    ghosts |-> <<>>,
                    next_ghost_spawn_ms |-> GHOST_SPAWN_INTERVAL_MS,
                    border_half_width |-> border.half_width,
                    border_half_height |-> border.half_height,
                    menu_signals |-> 0,
                    log |-> EmptyLog ]
                  : px \in PlayerStarts, border \in GhostBorders }
    /\ scene = <<"playing">>
    /\ trace = NoTrace

\* one pass of main()'s loop at night: the player moves, then the ghosts
GhostTick(key) ==
    /\ Playing
    /\ now + MAX_DT_MS <= MaxGhostMs
    /\ LET moved == PlayerUpdate([game EXCEPT !.log = EmptyLog], key, MAX_DT_MS)
       IN  /\ 0 <= moved.player.x /\ moved.player.x <= WORLD_WIDTH
           /\ \E w2 \in UpdateGhostSprites(moved, MAX_DT_MS, now + MAX_DT_MS) :
                 /\ game' = w2
                 /\ scene' = IF w2.menu_signals > game.menu_signals THEN <<"menu">> ELSE scene
    /\ now' = now + MAX_DT_MS
    /\ trace' = [op |-> "tick", arg |-> MAX_DT_MS, key |-> key, before |-> game.ghosts]

NextGhost == \E key \in {"none", "left", "right"} : GhostTick(key)

SpecGhost == InitGhost /\ [][NextGhost]_vars

\* The step of a chasing ghost in one frame, in pixels.
ChaseStep == (GHOST_SPEED * MAX_DT_MS) \div 1000

\* C13, as stated: at night, with the player at the centre of the border and a ghost
\* outside the border, a tick leaves the ghost one chase step nearer to the player
\* on the straight line between them.
C13_GhostChasesPlayerAtCentre ==
    (/\ trace.op = "tick"
     /\ Len(trace.before) = 1 /\ Len(game.ghosts) = 1
     /\ game.player.x = SAFE_CENTER_X /\ game.player.y = SAFE_CENTER_Y
     /\ ~PointInBounds(trace.before[1].x, trace.before[1].y, CurrentBorderBounds(game)))
    => LET was == trace.before[1]
           ghost == game.ghosts[1]
           d == Hypot(game.player.x - was.x, game.player.y - was.y)
       IN  /\ Hypot(ghost.x - was.x, ghost.y - was.y) = ChaseStep
           /\ Hypot(game.player.x - ghost.x, game.player.y - ghost.y) = d - ChaseStep

\* C13, amended: at night, with the player outside the border, a tick takes a ghost
\* one chase step along the straight line to where the player now stands, which
\* brings it nearer by that step when it was at least a step away (and nearer in
\* any case when it was more than half a step away), unless the step ends inside
\* the border.
C13_GhostChasesExposedPlayer ==
    (/\ trace.op = "tick"
     /\ Len(trace.before) = 1 /\ Len(game.ghosts) = 1
     /\ ~PointInBounds(game.player.x, game.player.y, CurrentBorderBounds(game)))
    => LET was == trace.before[1]
           ghost == game.ghosts[1]
           dx == game.player.x - was.x
           dy == game.player.y - was.y
           d == Hypot(dx, dy)
           to_x == was.x + (dx * ChaseStep) \div d
           to_y == was.y + (dy * ChaseStep) \div d
       IN  (d > 0 /\ ~PointInBounds(to_x, to_y, CurrentBorderBounds(game)))
           => /\ ghost.x = to_x /\ ghost.y = to_y
              /\ Hypot(ghost.x - was.x, ghost.y - was.y) = ChaseStep
              /\ Hypot(game.player.x - ghost.x, game.player.y - ghost.y) = Abs(d - ChaseStep)
              /\ 2 * d > ChaseStep
                    => Hypot(game.player.x - ghost.x, game.player.y - ghost.y) < d

\* A ghost has made a chase step towards the player outside the border and has not
\* reached the player yet.
C13_Witness ==
    /\ trace.op = "tick"
    /\ Len(trace.before) = 1 /\ Len(game.ghosts) = 1
    /\ ~PointInBounds(game.player.x, game.player.y, CurrentBorderBounds(game))
    /\ game.log.caught = "none"
    /\ Abs(game.ghosts[1].x - trace.before[1].x) = ChaseStep
    /\ Abs(game.player.x - game.ghosts[1].x) = Abs(game.player.x - trace.before[1].x) - ChaseStep

\* C20: whenever a ghost has caught the player, the player's position is outside
\* the safe zone.
C20_SafeZoneImmune ==
    (trace.op = "tick" /\ game.log.caught = "ghost")
    => ~PointInBounds(game.player.x, game.player.y, SafeBounds)

C29_WitnessBorder ==
    /\ trace.op = "tick"
    /\ game.log.pushed.taken
    /\ ~PointInBounds(game.player.x, game.player.y, CurrentBorderBounds(game))
    /\ ~PointInBounds(game.log.pushed.from.x, game.log.pushed.from.y, SafeBounds)

(***************************************************************************)
(* SpecSpawn: the spawner under spawn calls, pickups and day refreshes, on  *)
(* a map with SpawnCandyPositions candy and SpawnBatteryPositions battery    *)
(* positions.                                                               *)
(***************************************************************************)
SpawnCandyPositions == 3
SpawnBatteryPositions == 2

InitSpawn ==
    /\ now = 0
    /\ game \in ConstructedStates(SpawnCandyPositions, SpawnBatteryPositions, {})
    /\ scene = "playing"
    /\ trace = NoTrace

SpawnCandyStep(kind, blocked) ==
    \E r \in SpawnCandy(game, kind, blocked) :
        /\ game' = r.g
        /\ trace' = [op |-> "spawn_candy", arg |-> kind, ret |-> r.ok, blocked |-> blocked]
        /\ UNCHANGED <<now, scene>>

SpawnBatteryStep(blocked) ==
    \E r \in SpawnBattery(game, blocked) :
        /\ game' = r.g
        /\ trace' = [op |-> "spawn_battery", arg |-> "battery", ret |-> r.ok, blocked |-> blocked]
        /\ UNCHANGED <<now, scene>>

PickupStep(it) ==
    /\ SumOver(game.candy_stockpile, CandyKinds) + InvCount(game.inventory, "battery") < MaxPicked
    /\ \E g2 \in PickupItem(game, it) :
        /\ game' = g2
        /\ trace' = [op |-> "pickup", arg |-> it.item, ret |-> it \notin g2.items]
        /\ UNCHANGED <<now, scene>>

RefreshStep(blocked) ==
    \E g2 \in RefreshDayResources(game, blocked) :
        /\ game' = g2
        /\ trace' = [op |-> "refresh", arg |-> "day", ret |-> TRUE]
        /\ UNCHANGED <<now, scene>>

NextSpawn ==
    \/ \E kind \in CandyKinds, blocked \in BlockedInputs : SpawnCandyStep(kind, blocked)
    \/ \E blocked \in BlockedInputs : SpawnBatteryStep(blocked)
    \/ \E it \in game.items : PickupStep(it)
    \/ \E blocked \in BlockedInputs : RefreshStep(blocked)

SpecSpawn == InitSpawn /\ [][NextSpawn]_vars

\* C5: in every state reached through spawn calls, pickups and day refreshes the
\* active count of each candy kind is at most the per-kind cap and the active
\* battery count at most the battery cap; the counts are those of the live items.
C5_SpawnCaps ==
    /\ \A k \in CandyKinds :
          /\ game.candy_active_counts[k] <= CANDY_MAX_PER_TYPE
          /\ Cardinality({it \in game.items : it.item = k}) <= CANDY_MAX_PER_TYPE
    /\ game.battery_active_count <= BATTERY_MAX_COUNT
    /\ Cardinality({it \in game.items : it.item = "battery"}) <= BATTERY_MAX_COUNT

\* A kind at its cap was asked to spawn once more while a position was free.
C5_Witness ==
    /\ trace.op = "spawn_candy"
    /\ ~trace.ret
    /\ game.candy_active_counts[trace.arg] = CANDY_MAX_PER_TYPE
    /\ game.available_candy_positions # <<>>

SeqRange(seq) == {seq[i] : i \in DOMAIN seq}

\* C22: for the candy pool and for the battery pool, the available list has no
\* position twice, shares no position with the live items of that kind, and
\* together with them makes up the whole pool.
C22_PoolsPartitioned ==
    LET candy_held == {it.pos : it \in {i \in game.items : i.item \in CandyKinds}}
        battery_held == {it.pos : it \in {i \in game.items : i.item = "battery"}}
        candy_free == SeqRange(game.available_candy_positions)
        battery_free == SeqRange(game.available_battery_positions)
    IN  /\ Cardinality(candy_free) = Len(game.available_candy_positions)
        /\ candy_free \cap candy_held = {}
        /\ candy_free \cup candy_held = SeqRange(game.candy_positions_pool)
        /\ Cardinality(battery_free) = Len(game.available_battery_positions)
        /\ battery_free \cap battery_held = {}
        /\ battery_free \cup battery_held = SeqRange(game.battery_positions_pool)

\* A day refresh ran over a map where a blocked position had been retried, leaving
\* one candy position free and one in use.
C22_Witness ==
    /\ trace.op = "refresh"
    /\ Len(game.available_candy_positions) >= 1
    /\ \E it \in game.items : it.item \in CandyKinds
    /\ \E it \in game.items : it.item = "battery"
    /\ Len(game.available_candy_positions)
         + Cardinality({it \in game.items : it.item \in CandyKinds}) = SpawnCandyPositions

\* C23: a spawn that failed found its kind at the cap or every available position
\* blocked (a failed spawn leaves the counts and the set of available positions as
\* they were, so both are read after the call).
C23_SpawnFailsOnlyWhenFull ==
    /\ (trace.op = "spawn_candy" /\ ~trace.ret)
       => \/ game.candy_active_counts[trace.arg] >= CANDY_MAX_PER_TYPE
          \/ SeqRange(game.available_candy_positions) \subseteq trace.blocked
    /\ (trace.op = "spawn_battery" /\ ~trace.ret)
       => \/ game.battery_active_count >= BATTERY_MAX_COUNT
          \/ SeqRange(game.available_battery_positions) \subseteq trace.blocked

(***************************************************************************)
(* SpecRespawn: the spawner with its respawn switches.  The switches are    *)
(* attributes that start off and that only the code embedding the playing   *)
(* state can turn on; EnableRespawnsStep is that explicit enable.  Items    *)
(* are picked up, frames run the respawn update, days refresh the map.      *)
(***************************************************************************)
EnableRespawnsStep ==
    /\ ~(game.candy_respawns_enabled /\ game.battery_respawns_enabled)
    /\ game' = [game EXCEPT !.candy_respawns_enabled = TRUE,
                            !.battery_respawns_enabled = TRUE]
    /\ trace' = [op |-> "enable", arg |-> "respawns", ret |-> TRUE]
    /\ UNCHANGED <<now, scene>>

RespawnPickupStep(it) ==
    /\ SumOver(game.candy_stockpile, CandyKinds) + InvCount(game.inventory, "battery") < MaxPicked
    /\ \E g2 \in PickupItem(game, it) :
        /\ game' = g2
        /\ trace' = [op |-> "pickup", arg |-> it.item, ret |-> it \notin g2.items]
        /\ UNCHANGED <<now, scene>>

RespawnTickStep ==
    /\ now + MAX_DT_MS <= MaxRespawnMs
    /\ now' = now + MAX_DT_MS
    /\ \E g2 \in UpdateRespawns(game, now') :
        /\ game' = g2
        /\ trace' = [op |-> "respawn_tick", arg |-> "tick",
                     ret |-> Cardinality(g2.items) > Cardinality(game.items)]
    /\ UNCHANGED scene

RespawnRefreshStep(blocked) ==
    \E g2 \in RefreshDayResources(game, blocked) :
        /\ game' = g2
        /\ trace' = [op |-> "refresh", arg |-> "day", ret |-> TRUE]
        /\ UNCHANGED <<now, scene>>

NextRespawn ==
    \/ EnableRespawnsStep
    \/ \E it \in game.items : RespawnPickupStep(it)
    \/ RespawnTickStep
    \/ \E blocked \in BlockedInputs : RespawnRefreshStep(blocked)

SpecRespawn == InitSpawn /\ [][NextRespawn]_vars

FrameTimes == {100}
EventNightDelays == {500, 800, 3000}

\* the machines the player walks up to in the sessions: one of a colour, and the
\* neutral one
SessionMachines == {MachineByCandy(CANDY_TYPES[1]), NEUTRAL}

\* settings["event_definitions"] of the sessions: a battery wards off a blackout
SessionEvents ==
    << [name |-> "blackout", counter_item |-> "battery", counter_amount |-> 1],
       [name |-> "stink", counter_item |-> "Clothes Pin", counter_amount |-> 1] >>

Init ==
    /\ now = 0
    /\ game \in { [g EXCEPT !.event_night_delay_ms = d, !.event_definitions = SessionEvents]
                  : g \in ConstructedStates(1, 1, {}), d \in EventNightDelays }
    /\ scene = <<"playing">>
    /\ trace = NoTrace

\* one pass of main()'s loop while the playing state is on top
Tick(frame_ms) ==
    /\ Playing
    /\ now + frame_ms <= MaxNowMs
    /\ \E g2 \in Update(game, now + frame_ms, frame_ms) :
        /\ game' = g2
        /\ scene' = IF g2.menu_signals > game.menu_signals THEN <<"menu">> ELSE scene
    /\ now' = now + frame_ms
    /\ trace' = [op |-> "tick", arg |-> frame_ms]

\* try_interact() within reach of the radio
InteractRadio ==
    /\ Playing
    /\ LET r == InvRemove(game.inventory, "battery", 1)
       IN  game' = IF r.ok
                   THEN [game EXCEPT !.log = EmptyLog,
                                     !.inventory = r.slots,
                                     !.radio_batteries = game.radio_batteries + 1,
                                     !.events = SetLongHint(game.events, TRUE, now)]
                   ELSE [game EXCEPT !.log = EmptyLog, !.inventory = r.slots]
    /\ trace' = [op |-> "radio", arg |-> 0]
    /\ UNCHANGED <<now, scene>>

\* try_interact() within reach of machine m
InteractMachine(m) ==
    /\ Playing
    /\ LET r == TryUpgrade(game.machines[m], game.candy_stockpile, game.world_progress)
           g1 == [game EXCEPT !.log = EmptyLog,
                              !.machines = [game.machines EXCEPT ![m] = r.machine],
                              !.candy_stockpile = r.stock,
                              !.world_progress = r.wp]
           g2 == IF r.ok THEN CheckMachineVictory(g1) ELSE g1
       IN  /\ game' = g2
           /\ scene' = IF g2.menu_signals > game.menu_signals THEN <<"menu">> ELSE scene
    /\ trace' = [op |-> "machine", arg |-> m]
    /\ UNCHANGED now

Next ==
    \/ \E frame_ms \in FrameTimes : Tick(frame_ms)
    \/ InteractRadio
    \/ \E m \in SessionMachines : InteractMachine(m)

Spec == Init /\ [][Next]_vars

EventsCleared(ev) ==
    /\ ~ev.night_active
    /\ ev.current_event = NoEvent
    /\ ev.next_event_time = NoTime
    /\ ev.hint_time = NoTime

\* C1, as stated: the clock stays within a day, and the day counter rises by one on
\* every step in which the clock passes midnight (the time of day falls) and by
\* nothing on any other step.
C1_DayPerWrap ==
    /\ [](game.time_minutes >= 0 /\ game.time_minutes < 24 * 60)
    /\ [][game'.day - game.day = IF game'.time_minutes < game.time_minutes THEN 1 ELSE 0]_vars

C3_DeadlineEndsNight ==
    [][(/\ trace'.op = "tick"
        /\ game.is_night
        /\ game.events.night_active
        /\ game.events.next_event_time # NoTime
        /\ now' >= game.events.next_event_time)
       => (/\ game'.log.resolved # "none"
           /\ ~game'.is_night
           /\ game'.day = game.day + 1
           /\ EventsCleared(game'.events))]_vars

\* C9: the border never lies inside the safe zone's extents, and from one state of a
\* night to the next state of that night neither half-extent grows.
C9_BorderShrinks ==
    /\ [](/\ game.border_half_width >= SAFE_HALF_WIDTH
          /\ game.border_half_height >= SAFE_HALF_HEIGHT)
    /\ [][(game.is_night /\ game'.is_night)
          => (/\ game'.border_half_width <= game.border_half_width
              /\ game'.border_half_height <= game.border_half_height)]_vars

\* A night tick that found the border on the safe zone's extents and held it there.
C9_Witness ==
    /\ trace.op = "tick"
    /\ game.is_night
    /\ game.night_ms > NIGHT_TRANSITION_MS
    /\ game.border_half_width = SAFE_HALF_WIDTH
    /\ game.border_half_height = SAFE_HALF_HEIGHT

\* C10, as stated: whenever a night ends, by the clock or by a forced day, the border
\* of the last state of the night has the safe zone's extents.
C10_BorderAtNightEnd ==
    [][(game.is_night /\ ~game'.is_night)
       => (/\ game.border_half_width = SAFE_HALF_WIDTH
           /\ game.border_half_height = SAFE_HALF_HEIGHT)]_vars

\* C10, amended: whenever a night ends whose ticks have given the border at least
\* the transition duration of simulated time, the border of the last state of the
\* night has the safe zone's extents.
C10_BorderAtLongNightEnd ==
    [][(game.is_night /\ ~game'.is_night /\ game.night_ms >= NIGHT_TRANSITION_MS)
       => (/\ game.border_half_width = SAFE_HALF_WIDTH
           /\ game.border_half_height = SAFE_HALF_HEIGHT)]_vars

\* The clock ended a night that had lasted longer than the transition.
C10_Witness ==
    /\ trace.op = "tick"
    /\ game.log.ended.taken
    /\ ~game.log.forced.taken
    /\ game.log.ended.night_ms >= NIGHT_TRANSITION_MS
    /\ game.log.ended.border_half_width = SAFE_HALF_WIDTH
    /\ game.log.ended.border_half_height = SAFE_HALF_HEIGHT
    /\ ~game.is_night

\* C11: a tick that turns day into night runs _on_night_start once, leaves the shrink
\* speed that takes the initial extents to the safe zone's in the transition
\* duration, and leaves the border one frame's shrink inside its initial extents:
\* the reset came first and the night's first shrink started from it.
C11_NightStartResetsBorder ==
    [][(~game.is_night /\ game'.is_night) =>
        LET duration == Max(100, NIGHT_TRANSITION_MS)
            speed_x == ((INITIAL_BORDER_HALF_WIDTH - SAFE_HALF_WIDTH) * 1000) \div duration
            speed_y == ((INITIAL_BORDER_HALF_HEIGHT - SAFE_HALF_HEIGHT) * 1000) \div duration
            dt == Min(trace'.arg, MAX_DT_MS)
        IN  /\ trace'.op = "tick"
            /\ game'.log.night_starts = 1
            /\ game'.border_shrink_speed_x = speed_x
            /\ game'.border_shrink_speed_y = speed_y
            /\ game'.border_half_width
                   = Max(SAFE_HALF_WIDTH, INITIAL_BORDER_HALF_WIDTH - (speed_x * dt) \div 1000)
            /\ game'.border_half_height
                   = Max(SAFE_HALF_HEIGHT, INITIAL_BORDER_HALF_HEIGHT - (speed_y * dt) \div 1000)]_vars

\* A night has started in this tick, and the border is one frame inside its initial
\* extents.
C11_Witness ==
    /\ trace.op = "tick"
    /\ game.log.night_starts = 1
    /\ game.is_night
    /\ game.night_ms = MAX_DT_MS
    /\ game.border_half_width < INITIAL_BORDER_HALF_WIDTH
    /\ game.border_half_width > SAFE_HALF_WIDTH

\* What _on_day_start leaves at the end of its tick: day, the border at its initial
\* extents, no ghost, the resources refreshed once, every giver ready for the day,
\* the day hunter spawned.
DayStarted(g) ==
    /\ ~g.is_night
    /\ g.border_half_width = INITIAL_BORDER_HALF_WIDTH
    /\ g.border_half_height = INITIAL_BORDER_HALF_HEIGHT
    /\ g.ghosts = 0
    /\ g.log.refreshes = 1
    /\ \A j \in DOMAIN g.givers : ~g.givers[j].used_today
    /\ g.day_hunter /\ g.log.hunter_spawns = 1

C17_DayClearsEvent ==
    /\ [][(/\ trace'.op = "tick"
           /\ game.is_night /\ ~game'.is_night
           /\ game.events.next_event_time # NoTime
           /\ now' < game.events.next_event_time)
          => (/\ EventsCleared(game'.events)
              /\ game'.log.resolved = "none" /\ game'.log.hints = 0
              /\ ~game'.log.forced.taken
              /\ \A item \in ItemKinds :
                    InvCount(game'.inventory, item) >= InvCount(game.inventory, item)
              /\ game'.machines = game.machines
              /\ game'.world_progress = game.world_progress
              /\ game'.neutral_holder = game.neutral_holder
              /\ Cardinality({k \in CandyKinds :
                                game'.candy_stockpile[k] # game.candy_stockpile[k]}) <= 1)]_vars
    /\ []((trace.op = "tick" /\ ~game.is_night /\ ~game.log.forced.taken)
          => (/\ EventsCleared(game.events)
              /\ game.log.resolved = "none" /\ game.log.hints = 0))

\* A later tick of a day that the clock started while the night's event was still
\* three seconds from its deadline: the player holds the battery that would have
\* met a blackout.
C17_Witness ==
    /\ trace.op = "tick"
    /\ game.event_night_delay_ms = 3000
    /\ game.day = 2
    /\ ~game.is_night
    /\ game.time_minutes > DAY_START_HOUR * 60
    /\ game.log.day_starts = 0
    /\ InvCount(game.inventory, "battery") = 1
    /\ EventsCleared(game.events)

\* C18: a failed resolution is a tick whose log says "failure".  Its backlash raised
\* the neutral machine by min(penalty steps, max level - level), recorded one
\* upgrade (world exp and today's count) for each level gained, and left the
\* inventory as the handler found it; the world exp stays raised through the day
\* that the same handler then begins.
C18_FailureBacklash ==
    (trace.op = "tick" /\ game.log.resolved = "failure")
    => LET b == game.log.backlash
           steps == Max(1, EVENT_FAILURE_NEUTRAL_UPGRADE_LEVELS)
           gained == Min(steps, MACHINE_MAX_LEVEL - b.level)
       IN  /\ b.taken
           /\ b.changed = gained
           /\ b.level_after = b.level + gained
           /\ b.world_progress_after.world_exp
                 = b.world_progress.world_exp + gained * WORLD_EXP_PER_UPGRADE
           /\ b.world_progress_after.upgrades_today
                 = b.world_progress.upgrades_today + gained
           /\ b.inventory_after = b.inventory
           /\ game.world_progress.world_exp = b.world_progress_after.world_exp
           /\ game.log.forced.taken
           /\ game.log.forced.neutral_level = b.level_after

\* A failed blackout raised the neutral machine by one level.
C18_Witness ==
    /\ trace.op = "tick"
    /\ game.log.resolved = "failure"
    /\ game.log.backlash.taken
    /\ game.log.backlash.changed = 1
    /\ game.log.backlash.level_after = game.log.backlash.level + 1
    /\ game.log.backlash.world_progress_after.upgrades_today
          = game.log.backlash.world_progress.upgrades_today + 1

(***************************************************************************)
(* SpecActions: the player's actions (the radio, a machine, a giver, a      *)
(* recipe of the crafting table, walking onto an item) with the number of   *)
(* lines each appends to the message log.  The player starts with nothing,  *)
(* with one battery, or with every slot full of batteries, and with an      *)
(* empty stockpile or two candies of every kind.                            *)
(***************************************************************************)
ActionInventories ==
    { EmptyInventory,
      [i \in DOMAIN EmptyInventory |->
          IF i = 1 THEN [item |-> "battery", count |-> 1] ELSE NoStack],
      [i \in DOMAIN EmptyInventory |-> [item |-> "battery", count |-> INVENTORY_MAX_STACK]] }

ActionStocks == { EmptyStockpile, [k \in CandyKinds |-> 2] }

\* The kinds random.choice(CANDY_TYPES) is let to draw for a giver's gift.
GiverKinds == {CANDY_TYPES[1]}

InitActions ==
    /\ now = 0
    /\ game \in { [g EXCEPT !.inventory = inv, !.candy_stockpile = stock]
                  : g \in ConstructedStates(1, 1, {}),
                    inv \in ActionInventories, stock \in ActionStocks }
    /\ scene = "playing"
    /\ trace = [op |-> "init", failed |-> FALSE, messages |-> 0]

\* try_interact() at the radio: either branch adds one line
ActRadio ==
    /\ LET r == InvRemove(game.inventory, "battery", 1)
       IN  /\ game' = IF r.ok
                      THEN [game EXCEPT !.inventory = r.slots,
                                        !.radio_batteries = game.radio_batteries + 1,
                                        !.events = SetLongHint(game.events, TRUE, now)]
                      ELSE [game EXCEPT !.inventory = r.slots]
           /\ trace' = [op |-> "radio", failed |-> ~r.ok, messages |-> 1]
    /\ UNCHANGED <<now, scene>>

\* try_interact() at a machine: try_upgrade adds one line on every path
ActMachine(m) ==
    /\ ~game.victory_triggered
    /\ LET r == TryUpgrade(game.machines[m], game.candy_stockpile, game.world_progress)
           g1 == [game EXCEPT !.machines = [game.machines EXCEPT ![m] = r.machine],
                              !.candy_stockpile = r.stock,
                              !.world_progress = r.wp]
       IN  /\ game' = IF r.ok THEN CheckMachineVictory(g1) ELSE g1
           /\ trace' = [op |-> "machine", failed |-> ~r.ok,
                        messages |-> IF r.msg \in {"max_level", "not_manual", "missing", "upgraded"}
                                     THEN 1 ELSE 0]
    /\ UNCHANGED <<now, scene>>

\* try_interact() at a giver: a gift and a line, or "Giver is resting."
ActGiver(i, kind) ==
    /\ \E r \in TryInteractGiver(game, i, kind, now) :
          /\ r.gave => SumOver(game.candy_stockpile, CandyKinds) < MaxActionCandy
          /\ game' = r.g
          /\ trace' = [op |-> "giver", failed |-> ~r.gave, messages |-> 1]
    /\ UNCHANGED <<now, scene>>

\* _craft_recipe(result, recipe), the callback of the crafting table
ActCraft(name) ==
    /\ LET r == CraftRecipe(game, name)
       IN  /\ game' = r.g
           /\ trace' = [op |-> "craft", failed |-> ~r.ok, messages |-> r.msgs]
    /\ UNCHANGED <<now, scene>>

\* The lines _handle_pickups() adds for one item: the bonus line of a candy, and
\* nothing for any other item, taken or left.
PickupMessages(g, it, g2) ==
    IF it.item \in CandyKinds
    THEN IF g2.candy_stockpile[it.item] - g.candy_stockpile[it.item] - Max(0, it.yield_count) > 0
         THEN 1 ELSE 0
    ELSE 0

\* _handle_pickups() with the player on one item; an item left lying was not held
ActPickup(it) ==
    /\ \E g2 \in PickupItem(game, it) :
          /\ game' = g2
          /\ trace' = [op |-> "pickup", failed |-> it \in g2.items,
                       messages |-> PickupMessages(game, it, g2)]
    /\ UNCHANGED <<now, scene>>

NextActions ==
    \/ ActRadio
    \/ \E m \in DOMAIN MACHINE_LAYOUT : ActMachine(m)
    \/ \E i \in 1..GIVER_COUNT, kind \in GiverKinds : ActGiver(i, kind)
    \/ \E name \in DOMAIN RECIPES : ActCraft(name)
    \/ \E it \in game.items : ActPickup(it)

SpecActions == InitActions /\ [][NextActions]_vars

\* C19: every action of the player that fails (an upgrade refused, a recipe not
\* crafted, the radio without a battery, a resting giver, an item the inventory
\* could not hold) has appended at least one line to the message log.
C19_FailureEmitsMessage ==
    trace.failed => trace.messages >= 1

\* C21: in every state it is night exactly when the clock is outside [06:00, 20:00);
\* a tick runs the night-start hook once if it turned day into night and not at all
\* otherwise, and the day-start hook once if it turned night into day and not at
\* all otherwise.
C21_NightFollowsClock ==
    /\ [](game.is_night <=> ~(DAY_START_HOUR * 60 <= game.time_minutes
                              /\ game.time_minutes < DAY_END_HOUR * 60))
    /\ [][trace'.op = "tick"
          => /\ game'.log.night_starts = (IF ~game.is_night /\ game'.is_night THEN 1 ELSE 0)
             /\ game'.log.day_starts = (IF game.is_night /\ ~game'.is_night THEN 1 ELSE 0)]_vars

\* An event resolved before midnight forced the day: the day-start hook ran once
\* and the clock stands at 06:00.
C21_Witness ==
    /\ trace.op = "tick"
    /\ game.log.forced.taken
    /\ game.log.forced.time_minutes >= DAY_END_HOUR * 60
    /\ game.log.day_starts = 1 /\ game.log.night_starts = 0
    /\ ~game.is_night
    /\ game.time_minutes = DAY_START_HOUR * 60

\* C25: no scheduled event has its hint broadcast more than once, whatever the
\* player does at the radio during the night.
C25_HintAtMostOnce ==
    game.event_hints <= 1

\* C26: a frame lowers the radio's battery count by one for each hint it broadcast
\* with the long window and by nothing for a hint with the short window; the count
\* is never negative, and the long window is enabled only while it is positive.
C26_LongHintUsesOneBattery ==
    /\ [](game.radio_batteries >= 0)
    /\ [](game.events.long_hint_enabled => game.radio_batteries >= 1)
    /\ [][trace'.op = "tick"
          => /\ game'.log.long_hints <= game'.log.hints
             /\ game'.log.hints <= 1
             /\ game'.radio_batteries = game.radio_batteries - game'.log.long_hints]_vars

\* A hint broadcast with the long window used up the only battery of the radio.
C26_Witness ==
    /\ trace.op = "tick"
    /\ game.log.hints = 1 /\ game.log.long_hints = 1
    /\ game.radio_batteries = 0
    /\ ~game.events.long_hint_enabled

\* A hint broadcast with the short window left the radio's battery alone.
C26_WitnessShort ==
    /\ trace.op = "tick"
    /\ game.log.hints = 1 /\ game.log.long_hints = 0
    /\ InvCount(game.inventory, "battery") = 1
    /\ game.radio_batteries = 0

\* C27: in every state the neutral holder lies between its minimum and its maximum.
C27_HolderInRange ==
    /\ NEUTRAL_HOLDER_MIN <= game.neutral_holder
    /\ game.neutral_holder <= NEUTRAL_HOLDER_MAX

\* Four days with an upgrade each have brought the holder down to its minimum while
\* the neutral machine, at level 1, had nothing to be drained of.
C27_Witness ==
    /\ trace.op = "begin_day"
    /\ game.neutral_holder = NEUTRAL_HOLDER_MIN
    /\ game.machines[NEUTRAL].level = 1
    /\ game.log.holder_results = 1

(***************************************************************************)
(* playing.py and entities.py: the day hunter as a sprite, in the world of  *)
(* the ghosts' section.  The hunter's home is the centre of the tile eight  *)
(* tiles up and left of the safe zone's centre tile, and no further up or   *)
(* left than tile (2, 2).                                                   *)
(***************************************************************************)
HUNTER_WIDTH == 30
HUNTER_HEIGHT == 46
DAY_HUNTER_SPEED == 100
HUNTER_SAFE_PADDING == 6
ENTITY_SAFE_PADDING == 8

\* tilemap.tile_to_world_center(tx, ty)
TileToWorldCenter(tx, ty) == Point(tx * TILE_SIZE + TILE_SIZE \div 2, ty * TILE_SIZE + TILE_SIZE \div 2)

\* self.day_hunter_home as the constructor leaves it
DayHunterHome ==
    TileToWorldCenter(Max(2, SAFE_CENTER_X \div TILE_SIZE - 8), Max(2, SAFE_CENTER_Y \div TILE_SIZE - 8))

\* self.day_hunter_trigger_rect
DayHunterTriggerRect ==
    [left |-> 0, top |-> 0,
     width |-> Max(TILE_SIZE, SAFE_CENTER_X - TILE_SIZE),
     height |-> Max(TILE_SIZE, SAFE_CENTER_Y - TILE_SIZE)]

\* pygame.Rect.collidepoint
CollidePoint(r, x, y) ==
    /\ r.left <= x /\ x < r.left + r.width
    /\ r.top <= y /\ y < r.top + r.height

\* _is_inside_safe_zone(position)
IsInsideSafeZone(x, y) == PointInBounds(x, y, SafeBounds)

\* _clamp_entity_to_world(entity)
ClampEntityToWorld(entity) ==
    [entity EXCEPT !.x = Max(TILE_SIZE \div 2, Min(WORLD_WIDTH - TILE_SIZE \div 2, entity.x)),
                   !.y = Max(TILE_SIZE \div 2, Min(WORLD_HEIGHT - TILE_SIZE \div 2, entity.y))]

\* the hunter's rect: its image, centred on (int(x), int(y))
HunterRect(hunter) ==
    [left |-> hunter.x - HUNTER_WIDTH \div 2, top |-> hunter.y - HUNTER_HEIGHT \div 2,
     width |-> HUNTER_WIDTH, height |-> HUNTER_HEIGHT]

NoHunter == [set |-> FALSE]

\* _spawn_day_hunter(), away from the walls
SpawnDayHunterSprite(w) ==
    LET home == w.day_hunter_home
        pushed == PushPointOutsideBounds(home.x, home.y, SafeBounds, 4)
        at == IF IsInsideSafeZone(home.x, home.y) /\ pushed.moved
              THEN Point(pushed.x, pushed.y) ELSE home
    IN  [w EXCEPT !.day_hunter_home = at,
                  !.day_hunter = [set |-> TRUE, x |-> at.x, y |-> at.y, speed |-> DAY_HUNTER_SPEED],
                  !.day_hunter_patrol_target = NoPoint,
                  !.day_hunter_engaged = FALSE]

\* _despawn_day_hunter()
DespawnDayHunterSprite(w) ==
    [w EXCEPT !.day_hunter = NoHunter, !.day_hunter_patrol_target = NoPoint,
              !.day_hunter_engaged = FALSE]

\* _select_hunter_patrol_target(): of its draws, the one in which each of the twenty
\* candidates is turned down and the hunter's home is returned.  (A candidate lies
\* above the home, off the line on which SpecHunter keeps the sprites.)
SelectHunterPatrolTarget(w) == {w.day_hunter_home}

\* DayChaser.update(dt, target, colliders, bounds, safe_bounds), away from the walls
DayChaserUpdate(hunter, dt, target) ==
    LET dx == target.x - hunter.x
        dy == target.y - hunter.y
        distance == Hypot(dx, dy)
        stepped == IF distance > 0
                   THEN [hunter EXCEPT !.x = hunter.x + (dx * hunter.speed * dt) \div (distance * 1000),
                                       !.y = hunter.y + (dy * hunter.speed * dt) \div (distance * 1000)]
                   ELSE hunter
        clamped == ClampEntityToWorld(stepped)
        pushed == PushPointOutsideBounds(clamped.x, clamped.y, SafeBounds, HUNTER_SAFE_PADDING)
    IN  [clamped EXCEPT !.x = pushed.x, !.y = pushed.y]

\* _keep_entity_outside_safe_zone(entity)
KeepEntityOutsideSafeZone(entity) ==
    LET pushed == PushPointOutsideBounds(entity.x, entity.y, SafeBounds, ENTITY_SAFE_PADDING)
    IN  [entity EXCEPT !.x = pushed.x, !.y = pushed.y]

\* An update in which the hunter catches the player it touches, engaged or not.
UpdateDayHunterSpriteAnyTouch(w, dt) ==
    IF ~w.day_hunter.set THEN {w}
    ELSE IF w.is_night THEN {DespawnDayHunterSprite(w)}
    ELSE LET player_in_safe_zone == IsInsideSafeZone(w.player.x, w.player.y)
             rect == DayHunterTriggerRect
             player_in_hunter_zone == /\ rect.width > 0 /\ rect.height > 0
                                      /\ CollidePoint(rect, w.player.x, w.player.y)
             engaged_now == player_in_hunter_zone /\ ~player_in_safe_zone
             w1 == IF engaged_now
                   THEN [w EXCEPT !.day_hunter_engaged = TRUE, !.day_hunter_patrol_target = NoPoint]
                   ELSE [w EXCEPT !.day_hunter_engaged = FALSE]
             retargeted ==
                 IF w1.day_hunter_engaged THEN {w1}
                 ELSE IF \/ ~w1.day_hunter_patrol_target.set
                         \/ Hypot(w1.day_hunter.x - w1.day_hunter_patrol_target.x,
                                  w1.day_hunter.y - w1.day_hunter_patrol_target.y) <= TILE_SIZE
                      THEN {[w1 EXCEPT !.day_hunter_patrol_target = t] : t \in SelectHunterPatrolTarget(w1)}
                      ELSE {w1}
         IN  Bind(retargeted, LAMBDA w2 :
                 LET target == IF w2.day_hunter_engaged THEN Point(w2.player.x, w2.player.y)
                               ELSE w2.day_hunter_patrol_target
                     hunter == KeepEntityOutsideSafeZone(DayChaserUpdate(w2.day_hunter, dt, target))
                     w3 == Logged([w2 EXCEPT !.day_hunter = hunter], "hunter_target",
                                  [taken |-> TRUE, x |-> target.x, y |-> target.y])
                 IN  IF CollideRect(HunterRect(hunter), SpriteRect(w3.player.x, w3.player.y, PLAYER_SIZE))
                     THEN {[Logged(w3, "caught", "hunter") EXCEPT !.menu_signals = w3.menu_signals + 1]}
                     ELSE {w3})

\* _update_day_hunter(dt) on the sprites: the possible results
UpdateDayHunterSprite(w, dt) ==
    IF ~w.day_hunter.set THEN {w}
    ELSE IF w.is_night THEN {DespawnDayHunterSprite(w)}
    ELSE LET player_in_safe_zone == IsInsideSafeZone(w.player.x, w.player.y)
             rect == DayHunterTriggerRect
             player_in_hunter_zone == /\ rect.width > 0 /\ rect.height > 0
                                      /\ CollidePoint(rect, w.player.x, w.player.y)
             engaged_now == player_in_hunter_zone /\ ~player_in_safe_zone
             w1 == IF engaged_now
                   THEN [w EXCEPT !.day_hunter_engaged = TRUE, !.day_hunter_patrol_target = NoPoint]
                   ELSE IF w.day_hunter_engaged /\ ~engaged_now
                        THEN [w EXCEPT !.day_hunter_engaged = FALSE]
                        ELSE w
             retargeted ==
                 IF w1.day_hunter_engaged THEN {w1}
                 ELSE IF \/ ~w1.day_hunter_patrol_target.set
                         \/ Hypot(w1.day_hunter.x - w1.day_hunter_patrol_target.x,
                                  w1.day_hunter.y - w1.day_hunter_patrol_target.y) <= TILE_SIZE
                      THEN {[w1 EXCEPT !.day_hunter_patrol_target = t] : t \in SelectHunterPatrolTarget(w1)}
                      ELSE {w1}
         IN  Bind(retargeted, LAMBDA w2 :
                 LET target == IF w2.day_hunter_engaged THEN Point(w2.player.x, w2.player.y)
                               ELSE w2.day_hunter_patrol_target
                     hunter == KeepEntityOutsideSafeZone(DayChaserUpdate(w2.day_hunter, dt, target))
                     w3 == Logged([w2 EXCEPT !.day_hunter = hunter], "hunter_target",
                                  [taken |-> TRUE, x |-> target.x, y |-> target.y])
                 IN  IF /\ w3.day_hunter_engaged
                        /\ CollideRect(HunterRect(hunter), SpriteRect(w3.player.x, w3.player.y, PLAYER_SIZE))
                     THEN {[Logged(w3, "caught", "hunter") EXCEPT !.menu_signals = w3.menu_signals + 1]}
                     ELSE {w3})

(***************************************************************************)
(* SpecHunter: a stretch of a day and the nightfall after it, frame by      *)
(* frame, with the player walking left and right on the line through the    *)
(* hunter's home.  That line crosses the trigger region outside the safe    *)
(* zone, the part of the region that lies inside the safe zone, the rest of *)
(* the safe zone, and the world beyond it.                                  *)
(***************************************************************************)
HunterPlayerStarts == {DayHunterHome.x + 30, SAFE_CENTER_X - SAFE_HALF_WIDTH + 10, SAFE_CENTER_X}

InitHunter ==
    /\ now = 0
    /\ game \in { SpawnDayHunterSprite(
                      [ is_night |-> FALSE,
                        player |-> [x |-> px, y |-> DayHunterHome.y],
                        day_hunter |-> NoHunter,
                        day_hunter_home |-> DayHunterHome,
                        day_hunter_patrol_target |-> NoPoint,
                        day_hunter_engaged |-> FALSE,
                        menu_signals |-> 0,
                        log |-> EmptyLog ])
                  : px \in HunterPlayerStarts }
    /\ scene = <<"playing">>
    /\ trace = NoTrace

\* one pass of main()'s loop: the player moves, then the hunter
HunterTick(key) ==
    /\ Playing
    /\ now + MAX_DT_MS <= MaxHunterMs
    /\ LET moved == PlayerUpdate([game EXCEPT !.log = EmptyLog], key, MAX_DT_MS)
           clamped == [moved EXCEPT !.player = ClampEntityToWorld(moved.player)]
       IN  \E w2 \in UpdateDayHunterSprite(clamped, MAX_DT_MS) :
              /\ game' = w2
              /\ scene' = IF w2.menu_signals > game.menu_signals THEN <<"menu">> ELSE scene
    /\ now' = now + MAX_DT_MS
    /\ trace' = [op |-> "tick", arg |-> MAX_DT_MS, key |-> key, hunted |-> game.day_hunter.set /\ ~game.is_night]

\* _on_night_start(): night falls, and the hunter is taken off the map
HunterNightStep ==
    /\ Playing
    /\ ~game.is_night
    /\ game' = DespawnDayHunterSprite([game EXCEPT !.is_night = TRUE, !.log = EmptyLog])
    /\ trace' = [op |-> "night_start"]
    /\ UNCHANGED <<now, scene>>

NextHunter ==
    \/ \E key \in {"none", "left", "right"} : HunterTick(key)
    \/ HunterNightStep

SpecHunter == InitHunter /\ [][NextHunter]_vars

\* C30: after a daytime tick that updated the hunter, the hunter is engaged exactly
\* when the player stands inside the trigger region and outside the safe zone; an
\* engaged hunter was sent to the player's position and holds no patrol target; and
\* the hunter caught the player only if it is engaged and touches the player.
C30_HunterEngagement ==
    (trace.op = "tick" /\ trace.hunted)
    => LET p == game.player
           t == game.log.hunter_target
       IN  /\ game.day_hunter_engaged
              <=> (CollidePoint(DayHunterTriggerRect, p.x, p.y) /\ ~IsInsideSafeZone(p.x, p.y))
           /\ game.day_hunter_engaged
              => /\ game.day_hunter_patrol_target = NoPoint
                 /\ t.taken /\ t.x = p.x /\ t.y = p.y
           /\ ~game.day_hunter_engaged
              => /\ game.day_hunter_patrol_target.set
                 /\ t.taken /\ Point(t.x, t.y) = game.day_hunter_patrol_target
           /\ game.log.caught = "hunter"
              => /\ game.day_hunter_engaged
                 /\ CollideRect(HunterRect(game.day_hunter), SpriteRect(p.x, p.y, PLAYER_SIZE))
           /\ scene = <<"menu">> <=> game.log.caught = "hunter"

\* The engaged hunter reached the player and the session ended.
C30_Witness ==
    /\ trace.op = "tick" /\ trace.hunted
    /\ game.day_hunter_engaged
    /\ game.log.caught = "hunter"
    /\ scene = <<"menu">>
    /\ now > MAX_DT_MS

\* The player stands on the safe zone's edge inside the trigger region, touching a
\* hunter that is not engaged, and the session goes on.
C30_WitnessTouch ==
    /\ trace.op = "tick" /\ trace.hunted
    /\ ~game.day_hunter_engaged
    /\ CollidePoint(DayHunterTriggerRect, game.player.x, game.player.y)
    /\ CollideRect(HunterRect(game.day_hunter),
                   SpriteRect(game.player.x, game.player.y, PLAYER_SIZE))
    /\ scene = <<"playing">>

(***************************************************************************)
(* SpecHazards: the sessions of Spec on a map that is configured with       *)
(* wandering NPCs, with the player leaving the radio and the machines       *)
(* alone.                                                                   *)
(***************************************************************************)
InitHazards ==
    /\ now = 0
    /\ game \in { [g EXCEPT !.event_night_delay_ms = d, !.event_definitions = SessionEvents,
                             !.npc_max_count = NPC_MAX_COUNT, !.npcs = n]
                  : g \in ConstructedStates(1, 1, {}), d \in EventNightDelays,
                    n \in 0..NPC_MAX_COUNT }
    /\ scene = <<"playing">>
    /\ trace = NoTrace

NextHazards == \E frame_ms \in FrameTimes : Tick(frame_ms)

SpecHazards == InitHazards /\ [][NextHazards]_vars

\* C31: between ticks, by day there is no ghost and the day hunter exists, and by
\* night there is no day hunter and no wandering NPC; the tick in which night turns to
\* day runs the day-start hook once, which clears the ghosts, spawns the NPCs anew and
\* spawns the hunter once, and the tick in which day turns to night runs the
\* night-start hook once.
C31_HazardsFollowPhase ==
    /\ [](~game.is_night => game.ghosts = 0 /\ game.day_hunter)
    /\ [](game.is_night => ~game.day_hunter /\ game.npcs = 0)
    /\ [][(trace'.op = "tick" /\ game.is_night /\ ~game'.is_night)
          => /\ game'.log.day_starts = 1 /\ game'.log.hunter_spawns = 1
             /\ game'.log.ended.taken
             /\ game'.npcs \in 0..game'.npc_max_count]_vars
    /\ [][(trace'.op = "tick" /\ ~game.is_night /\ game'.is_night)
          => game'.log.night_starts = 1]_vars

\* A day began on a night that had a ghost out: the ghost is gone, an NPC wanders
\* and the hunter is back.
C31_Witness ==
    /\ trace.op = "tick"
    /\ ~game.is_night
    /\ game.log.ended.taken /\ game.log.ended.ghosts = 1
    /\ game.ghosts = 0 /\ game.npcs = 1 /\ game.day_hunter

\* Night fell on a day with an NPC and the hunter: both are gone.
C31_WitnessNight ==
    /\ trace.op = "tick"
    /\ game.is_night /\ game.log.night_starts = 1
    /\ game.npcs = 0 /\ ~game.day_hunter
    /\ game.npc_max_count = 1

(***************************************************************************)
(* SpecCraft: the crafting table, used again and again on a stockpile and   *)
(* an inventory, with the inventory check before the crafting switched on   *)
(* or off.                                                                  *)
(***************************************************************************)
CraftStocks == { EmptyStockpile, [k \in CandyKinds |-> 2], [k \in CandyKinds |-> 5] }

CraftedItems == {RecipeResult[RecipeNames[i]] : i \in DOMAIN RecipeNames} \cup {"battery"}

InitCraft ==
    /\ now = 0
    /\ game \in { [Constructed EXCEPT !.inventory = inv, !.candy_stockpile = stock,
                                      !.inventory_full_craft_blocks = blocks]
                  : inv \in ActionInventories, stock \in CraftStocks, blocks \in BOOLEAN }
    /\ scene = <<"playing">>
    /\ trace = NoTrace

\* _craft_recipe(result, recipe), the callback of the crafting table
CraftStep(name) ==
    /\ LET r == CraftRecipe(game, name)
       IN  /\ game' = r.g
           /\ trace' = [op |-> "craft", name |-> name, failed |-> ~r.ok]
    /\ UNCHANGED <<now, scene>>

NextCraft == \E i \in DOMAIN RecipeNames : CraftStep(RecipeNames[i])

SpecCraft == InitCraft /\ [][NextCraft]_vars

\* C32: a crafting that succeeds takes exactly the recipe from the stockpile and adds
\* one unit of the result to the inventory, leaving every other item's count; a
\* crafting that fails leaves the stockpile and every slot of the inventory as they
\* were.
C32_CraftAtomic ==
    [][trace'.op = "craft"
       => LET recipe == RECIPES[trace'.name]
              result == RecipeResult[trace'.name]
          IN  IF ~trace'.failed
              THEN /\ \A k \in CandyKinds :
                         game'.candy_stockpile[k]
                             = game.candy_stockpile[k] - (IF k \in DOMAIN recipe THEN recipe[k] ELSE 0)
                   /\ \A k \in DOMAIN recipe : game.candy_stockpile[k] >= recipe[k]
                   /\ \A item \in CraftedItems :
                         InvCount(game'.inventory, item)
                             = InvCount(game.inventory, item) + (IF item = result THEN 1 ELSE 0)
              ELSE /\ game'.candy_stockpile = game.candy_stockpile
                   /\ game'.inventory = game.inventory]_vars

\* With the check before the crafting switched off, an affordable item found no room
\* in the inventory: the crafting failed and the stockpile still affords the item.
C32_Witness ==
    /\ trace.op = "craft" /\ trace.failed
    /\ ~game.inventory_full_craft_blocks
    /\ CanAfford(game.candy_stockpile, RECIPES[trace.name])
    /\ ~InvCanAdd(game.inventory, RecipeResult[trace.name], 1)

\* A crafting succeeded.
C32_WitnessMade ==
    /\ trace.op = "craft" /\ ~trace.failed
    /\ InvCount(game.inventory, RecipeResult[trace.name]) = 2

\* C33: a machine stands at the victory level only when victory was triggered, the
\* menu was signalled once by then and not before, and a tick of a state in which
\* victory was triggered leaves the state as it is.
C33_VictoryOnceThenFrozen ==
    LET won == \E i \in DOMAIN game.machines : game.machines[i].level >= MACHINE_VICTORY_LEVEL
    IN  /\ won => game.victory_triggered
        /\ game.menu_signals = (IF game.victory_triggered THEN 1 ELSE 0)
        /\ game.victory_triggered
           => \A frame_ms \in FrameTimes : Update(game, now + frame_ms, frame_ms) = {game}

\* A failed event raised the neutral machine to the victory level.
C33_Witness ==
    /\ trace.op = "failure_day"
    /\ game.victory_triggered /\ game.menu_signals = 1
    /\ game.machines[NEUTRAL].level >= MACHINE_VICTORY_LEVEL

\* The player's upgrade raised a machine to the victory level.
C33_WitnessUpgrade ==
    /\ trace.op = "machine"
    /\ game.victory_triggered /\ game.menu_signals = 1

\* The day result of the neutral holder raised the neutral machine to the victory level.
C33_WitnessHolder ==
    /\ trace.op = "begin_day"
    /\ game.victory_triggered /\ game.menu_signals = 1

(***************************************************************************)
(* SpecGiver: the givers, visited while time passes and days start, by the  *)
(* clock or forced by an event.  `trace.gifts` counts the gifts of each     *)
(* giver since the last day start, `trace.days` the days started.           *)
(***************************************************************************)
InitGiver ==
    /\ now = 0
    /\ game = Constructed
    /\ scene = <<"playing">>
    /\ trace = [op |-> "init", gifts |-> [i \in 1..GIVER_COUNT |-> 0], days |-> 0]

\* half a cooldown passes
GiverWaitStep ==
    /\ now + GIVER_COOLDOWN_MS \div 2 <= MaxGiverMs
    /\ now' = now + GIVER_COOLDOWN_MS \div 2
    /\ trace' = [trace EXCEPT !.op = "wait"]
    /\ UNCHANGED <<game, scene>>

\* _advance_time's self._on_day_start(), or _force_new_day()
GiverDayStep(forced) ==
    /\ trace.days < MaxGiverDays
    /\ game' \in (IF forced THEN ForceNewDay([game EXCEPT !.log = EmptyLog], now)
                  ELSE OnDayStart([game EXCEPT !.log = EmptyLog], now))
    /\ trace' = [op |-> IF forced THEN "forced_day" ELSE "day_start",
                 gifts |-> [i \in 1..GIVER_COUNT |-> 0], days |-> trace.days + 1]
    /\ UNCHANGED <<now, scene>>

\* try_interact() within reach of giver i
GiverStep(i, kind) ==
    /\ \E r \in TryInteractGiver([game EXCEPT !.log = EmptyLog], i, kind, now) :
          /\ game' = r.g
          /\ trace' = [op |-> "giver", giver |-> i, gave |-> r.gave, days |-> trace.days,
                       gifts |-> [trace.gifts EXCEPT ![i] = @ + (IF r.gave THEN 1 ELSE 0)]]
    /\ UNCHANGED <<now, scene>>

NextGiver ==
    \/ GiverWaitStep
    \/ \E forced \in BOOLEAN : GiverDayStep(forced)
    \/ \E i \in 1..GIVER_COUNT, kind \in GiverKinds : GiverStep(i, kind)

SpecGiver == InitGiver /\ [][NextGiver]_vars

\* C34: no giver has given more than once since the last day start; a gift is made
\* at or after the giver's deadline only, to a giver whose flag was down, and raises
\* the flag; a day start, by the clock or forced, leaves every giver's flag down; and
\* a visit to a giver that is not ready leaves the stockpile and the givers as they
\* were.
C34_GiverOncePerDay ==
    /\ [](\A i \in 1..GIVER_COUNT : trace.gifts[i] <= 1)
    /\ [][(trace'.op = "giver" /\ trace'.gave)
          => /\ now >= game.givers[trace'.giver].cooldown_until
             /\ ~game.givers[trace'.giver].used_today
             /\ game'.givers[trace'.giver].used_today
             /\ \A j \in 1..GIVER_COUNT : j # trace'.giver => game'.givers[j] = game.givers[j]]_vars
    /\ [][(trace'.op = "giver" /\ ~trace'.gave)
          => /\ game'.candy_stockpile = game.candy_stockpile
             /\ game'.givers = game.givers
             /\ game'.inventory = game.inventory]_vars
    /\ [][trace'.op \in {"day_start", "forced_day"}
          => \A i \in 1..GIVER_COUNT : ~game'.givers[i].used_today]_vars

\* A giver that gave on the first day gave again on the second, its cooldown over.
C34_Witness ==
    /\ trace.op = "giver" /\ trace.gave
    /\ trace.days >= 1
    /\ game.candy_stockpile[CANDY_TYPES[1]] >= 2 * GIVER_REWARD_MIN
    /\ \E i \in 1..GIVER_COUNT : game.givers[i].cooldown_until >= 2 * GIVER_COOLDOWN_MS

\* A day started while a giver's cooldown ran: its flag is down, and it is not ready.
C34_WitnessResting ==
    /\ trace.op = "giver" /\ ~trace.gave
    /\ \E i \in 1..GIVER_COUNT :
          /\ trace.giver = i
          /\ ~game.givers[i].used_today /\ now < game.givers[i].cooldown_until

\* ---------------------------------------------------------------------------
\* Inventory.remove on its own: stacks are put in and taken out.
\* ---------------------------------------------------------------------------

MaxRemove == 3

\* inventory.remove(item, count)
InvRemoveStep(item, count) ==
    LET r == InvRemove(game.inventory, item, count)
    IN  /\ game' = [game EXCEPT !.inventory = r.slots]
        /\ trace' = [op |-> "remove", arg |-> <<item, count>>, ret |-> r.ok, pre |-> game]
        /\ UNCHANGED <<now, scene>>

NextRemove ==
    \/ \E item \in ItemKinds, count \in 1..2 : InvAddStep(item, count)
    \/ \E item \in ItemKinds, count \in 1..MaxRemove : InvRemoveStep(item, count)

SpecRemove == InitInventory /\ [][NextRemove]_vars

\* C35: remove(item, n) is all-or-nothing: a False return leaves every slot as it
\* was; a True return has taken exactly n units of the item and touched no
\* other item.
C35_RemoveAllOrNothing ==
    (trace # NoTrace /\ trace.op = "remove")
    => LET item == trace.arg[1]
           n == trace.arg[2]
           pre == trace.pre.inventory
       IN  /\ ~trace.ret => game.inventory = pre
           /\ trace.ret => /\ InvCount(game.inventory, item) = InvCount(pre, item) - n
                           /\ \A other \in ItemKinds \ {item} :
                                InvCount(game.inventory, other) = InvCount(pre, other)

\* What remove does do: a True return takes exactly n units; a False return
\* means fewer than n were held, and takes every unit that was; no other item is
\* touched either way.
C35_RemoveTakesWhatItFinds ==
    (trace # NoTrace /\ trace.op = "remove")
    => LET item == trace.arg[1]
           n == trace.arg[2]
           pre == trace.pre.inventory
       IN  /\ trace.ret <=> InvCount(pre, item) >= n
           /\ InvCount(game.inventory, item) = IF trace.ret THEN InvCount(pre, item) - n ELSE 0
           /\ \A other \in ItemKinds \ {item} :
                \A i \in DOMAIN pre : (pre[i] # NoStack /\ pre[i].item = other)
                                      => game.inventory[i] = pre[i]

\* A remove returned False having held some of the item.
C35_WitnessPartial ==
    /\ trace # NoTrace /\ trace.op = "remove" /\ ~trace.ret
    /\ InvCount(trace.pre.inventory, trace.arg[1]) > 0

\* C36: a tick in which a night gives way to the day leaves the day counter one
\* above what the night's start found, the holder's day result having been
\* applied once since that start, however the night ended.
C36_NightCountsOneDay ==
    (trace.op = "tick" /\ game.log.day_starts > 0 /\ game.night_day # 0)
    => /\ game.day = game.night_day + 1
       /\ game.night_results = 1

\* A night ended by the clock with one day counted and one day result applied.
C36_WitnessClock ==
    /\ trace.op = "tick" /\ game.log.day_starts > 0 /\ game.night_day # 0
    /\ ~game.log.forced.taken
    /\ game.day = game.night_day + 1 /\ game.night_results = 1

\* A night ended by an event before midnight, one day counted.
C36_WitnessForcedEarly ==
    /\ trace.op = "tick" /\ game.log.day_starts > 0 /\ game.night_day # 0
    /\ game.log.forced.taken
    /\ game.day = game.night_day + 1 /\ game.night_results = 1

\* A night ended by an event in the tick of the clock's midnight, two days counted.
C36_WitnessForcedLate ==
    /\ trace.op = "tick" /\ game.log.day_starts > 0 /\ game.night_day # 0
    /\ game.log.forced.taken /\ game.log.wraps = 1
    /\ game.day = game.night_day + 2 /\ game.night_results = 2

(***************************************************************************)
(* SpecPause: a session the player pauses and resumes.  Frames keep coming  *)
(* while a pause or instructions state is on top of the stack, and          *)
(* pygame.time.get_ticks() keeps counting.                                  *)
(***************************************************************************)

Top(stack) == stack[Len(stack)]

\* how long the passes of main()'s loop that go by on a paused game take together
PauseTimes == {500}

\* passes of main()'s loop while a pause or instructions state is on top, taking
\* frame_ms together: Game.update reaches states[-1] only, whose update does
\* nothing
PausedFrame(frame_ms) ==
    /\ Len(scene) > 1
    /\ now + frame_ms <= MaxNowMs
    /\ now' = now + frame_ms
    /\ trace' = [op |-> "paused_frame", arg |-> frame_ms]
    /\ UNCHANGED <<game, scene>>

\* PlayingState.handle_event, the pause key: push_state("pause")
PushPause ==
    /\ Playing
    /\ scene' = Append(scene, "pause")
    /\ trace' = [op |-> "push", arg |-> "pause"]
    /\ UNCHANGED <<now, game>>

\* PauseState.intructions(): push_state("instructions")
PushInstructions ==
    /\ Top(scene) = "pause"
    /\ scene' = Append(scene, "instructions")
    /\ trace' = [op |-> "push", arg |-> "instructions"]
    /\ UNCHANGED <<now, game>>

\* PauseState.resume(), InstructionState.handle_event: pop_state()
PopState ==
    /\ Len(scene) > 1
    /\ scene' = SubSeq(scene, 1, Len(scene) - 1)
    /\ trace' = [op |-> "pop", arg |-> Top(scene)]
    /\ UNCHANGED <<now, game>>

\* PauseState.to_menu(): change_state("menu")
PauseToMenu ==
    /\ Top(scene) = "pause"
    /\ scene' = <<"menu">>
    /\ trace' = [op |-> "change", arg |-> "menu"]
    /\ UNCHANGED <<now, game>>

\* the sessions: nothing lies on the map to pick up, and one event is defined
InitPause ==
    /\ now = 0
    /\ game \in { [g EXCEPT !.event_night_delay_ms = d,
                            !.event_definitions = SubSeq(SessionEvents, 1, 1)]
                  : g \in ConstructedStates(0, 0, {}), d \in EventNightDelays }
    /\ scene = <<"playing">>
    /\ trace = NoTrace

NextPause ==
    \/ \E frame_ms \in FrameTimes : Tick(frame_ms)
    \/ \E frame_ms \in PauseTimes : PausedFrame(frame_ms)
    \/ PushPause
    \/ PushInstructions
    \/ PopState
    \/ PauseToMenu

SpecPause == InitPause /\ [][NextPause]_vars

\* The simulated time a night has been given by the tick that first finds the
\* clock `offset` ms past the night's start, in a session of frames of
\* MAX_DT_MS that is never paused: the frame of the start and the frames up
\* to the offset.
UnpausedNightMs(offset) == MAX_DT_MS + ((offset + MAX_DT_MS - 1) \div MAX_DT_MS) * MAX_DT_MS

\* C37, no tick while paused: a step taken with a pause or instructions state on
\* top of the stack leaves the playing state as it was.
C37_NoTickWhilePaused == [][Len(scene) > 1 => game' = game]_vars

\* C37, as stated: no tick runs while paused, and the night has been given the
\* same simulated time when its hint is broadcast and when its event is
\* resolved as in a session that was never paused.
C37_PauseKeepsNightTime ==
    /\ C37_NoTickWhilePaused
    /\ []((trace.op = "tick" /\ game.log.hints > 0 /\ game.is_night)
          => game.night_ms = UnpausedNightMs(Max(0, game.event_night_delay_ms - HINT_SHORT_MS)))
    /\ []((trace.op = "tick" /\ game.log.resolved # "none" /\ game.log.ended.taken)
          => game.log.ended.night_ms = UnpausedNightMs(game.event_night_delay_ms))

\* A step was taken while paused.
C37_WitnessPaused == trace.op = "paused_frame" /\ game.is_night /\ game.events.night_active

\* An event resolved in a night that was paused: the night got less simulated
\* time than the event's delay.
C37_WitnessShortNight ==
    /\ trace.op = "tick" /\ game.log.resolved # "none" /\ game.log.ended.taken
    /\ game.log.ended.night_ms < game.event_night_delay_ms

\* C38: in every state the long hint window is enabled exactly when the radio
\* holds a battery, and an event scheduled by a night start that found a battery
\* in the radio has its hint timed by the long window.
C38_LongHintIffBattery ==
    /\ [](game.events.long_hint_enabled <=> game.radio_batteries >= 1)
    /\ [][(trace'.op = "tick" /\ game'.log.night_starts > 0 /\ game.radio_batteries >= 1
           /\ game'.events.night_active)
          => game'.log.long_hints = 1 \/ game'.events.hint_time =
                Max(now', game'.events.next_event_time - HINT_LONG_MS)]_vars

\* The day began with a battery left in the radio and the long window disabled.
C38_WitnessStranded ==
    /\ trace.op = "tick" /\ game.log.day_starts > 0
    /\ game.radio_batteries >= 1
    /\ ~game.events.long_hint_enabled

\* A night start found a battery in the radio and timed the hint by the long window.
C38_WitnessLong ==
    /\ trace.op = "tick" /\ game.log.night_starts > 0
    /\ game.log.long_hints = 1

\* C39: a tick that resolves an event forces the day in the same tick; after a
\* failure whose backlash raised the neutral machine the forced day applies the
\* holder's upgrade penalty; after a success that found no upgrade recorded for
\* the day it applies the no-upgrade bonus.
C39_BacklashCountsAsUpgrade ==
    [][(trace'.op = "tick" /\ game'.log.resolved # "none")
       => /\ game'.log.forced.taken
          /\ (game'.log.resolved = "failure" /\ game'.log.backlash.changed > 0)
             => game'.log.day_result = "penalty"
          /\ (game'.log.resolved = "success" /\ game.world_progress.upgrades_today = 0)
             => game'.log.day_result = "bonus"]_vars

\* A failure raised the neutral machine and the forced day applied the penalty.
C39_Witness ==
    /\ trace.op = "tick" /\ game.log.resolved = "failure"
    /\ game.log.backlash.taken /\ game.log.backlash.changed > 0
    /\ game.log.backlash.world_progress.upgrades_today = 0
    /\ game.log.day_result = "penalty"

\* A success on a day without an upgrade, and the forced day applied the bonus.
C39_WitnessSuccess ==
    /\ trace.op = "tick" /\ game.log.resolved = "success"
    /\ game.log.forced.taken
    /\ game.log.day_result = "bonus"

\* C40: by day the event manager holds no event, no deadline and no hint tick; a
\* tick in which the night starts leaves one of the defined events scheduled with
\* its deadline the delay after that tick's clock reading; an event is resolved
\* only in a tick that found the night's event scheduled, and that tick ends the
\* night, so that no night sees a second resolution.
C40_EventsOnlyAtNight ==
    /\ [](~game.is_night => EventsCleared(game.events))
    /\ [][(trace'.op = "tick" /\ game'.log.night_starts > 0)
          => /\ game'.log.night_starts = 1
             /\ game'.is_night /\ game'.events.night_active
             /\ \E i \in DOMAIN game.event_definitions :
                   game'.events.current_event = game.event_definitions[i]
             /\ game'.events.next_event_time = now' + game.event_night_delay_ms
             /\ game'.log.resolved = "none"]_vars
    /\ [][game'.log.resolved # "none"
          => /\ trace'.op = "tick"
             /\ game.is_night /\ game.events.night_active
             /\ game.events.next_event_time # NoTime /\ now' >= game.events.next_event_time
             /\ ~game'.is_night /\ EventsCleared(game'.events)]_vars

\* The night's event was resolved and the day that followed holds no event.
C40_Witness ==
    /\ trace.op = "tick" /\ game.log.resolved # "none"
    /\ ~game.is_night /\ EventsCleared(game.events)

\* A night start scheduled its event.
C40_WitnessScheduled ==
    /\ trace.op = "tick" /\ game.log.night_starts = 1
    /\ game.events.night_active
    /\ game.events.next_event_time = now + game.event_night_delay_ms

====
